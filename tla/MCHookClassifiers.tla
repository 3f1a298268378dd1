------------------------- MODULE MCHookClassifiers -------------------------
(***************************************************************************)
(* Words, tools, inputs and replies on which the two programs are          *)
(* compared.                                                               *)
(***************************************************************************)
EXTENDS HookClassifiers

Quote == "'"
MakeTest == "'make test'"

Wrapping ==
    {"sudo", "-u", "env", "A=1", "time", "/bin/bash", "-lc", MakeTest, Quote,
     "&", "Pytest", "make", "build", "run"}
Running ==
    {"env", "npm", "run", "test", "build", "npx", "jest", "vite", "cargo",
     "make", "ninja", "&"}
Toolchains ==
    {"env", "python3", "-m", "Pytest", "arduino-cli", "upload", "compile",
     "cmake", "--build", "west", "flash", "&"}
OrdinaryVocabularies == {Wrapping, Running, Toolchains}
OrdinaryWords == UNION OrdinaryVocabularies \cup {"test", "newline"}

Options == {"-u", "-m", "-lc", "--build"}
Separators == {"&", "newline"}

Plain(w) ==
    [lower |-> w, file |-> w, stem |-> w, option |-> FALSE, assigns |-> FALSE,
     separator |-> "no", unclosed |-> FALSE, token |-> w, script |-> <<w>>]

Named(w, name) == [Plain(w) EXCEPT !.lower = name, !.file = name, !.stem = name]

Entries ==
    [w \in OrdinaryWords |->
        CASE w \in Options -> [Plain(w) EXCEPT !.option = TRUE]
          [] w \in Separators -> [Plain(w) EXCEPT !.separator = "bare"]
          [] w = "A=1" -> [Plain(w) EXCEPT !.assigns = TRUE]
          [] w = Quote -> [Plain(w) EXCEPT !.unclosed = TRUE]
          [] w = MakeTest -> [Plain(w) EXCEPT !.script = <<"make", "test">>]
          [] w = "/bin/bash" -> [Plain(w) EXCEPT !.file = "bash", !.stem = "bash"]
          [] w = "Pytest" -> Named(w, "pytest")
          [] OTHER -> Plain(w)]

\* Names the programs treat alike: of the short ones, only those that both
\* look for at the end of a longer name.
OrdinaryTools ==
    {<<"bash">>, <<"shell">>, <<"exec", "command">>, <<"mcp", "run", "command">>,
     <<"apply", "patch">>, <<"mcp", "fs", "write", "file">>, <<"mcp", "edit">>,
     <<"multiedit">>, <<"file", "write">>, <<"write", "file", "now">>,
     <<"read">>, <<"mcp", "grep">>, <<"mcp", "search", "query">>, <<"query">>,
     <<"list", "files">>, <<"agent">>, <<"mcp", "spawn", "agent">>,
     <<"subagent", "start">>, <<"start">>}

AllInputs ==
    {[form |-> f] : f \in {"none", "other", "text"}} \cup
    [form : {"object"}, fields : [command : Field, cmd : Field, script : Field]]

ReplyPlaces == {"response", "response.metadata", "root"}
ReplyKeys ==
    {"exit_code", "return_code", "status", "success", "is_error", "isError",
     "error", "tool_error"}
ReplyValues ==
    {"null", "true", "false", "zero", "number", "numeral", "text", "empty",
     "failed"}
=============================================================================
