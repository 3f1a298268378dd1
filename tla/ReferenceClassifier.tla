------------------------ MODULE ReferenceClassifier ------------------------
(***************************************************************************)
(* classify.py, the Python reference: what state a tool call is shown as,  *)
(* and whether the answer of a tool says that it failed.                   *)
(***************************************************************************)
EXTENDS CommandWords

\* shlex drops the quotes, and _tokenize has made a semicolon of every newline
\* before: a separator that is quoted or escaped is one all the same.
Boundary(w) == Lexicon[w].separator # "no"

Boundaries(words) == {i \in DOMAIN words : Boundary(words[i])}
Segments(words) ==
    {SegmentTo(j, words, Boundaries(words)) : j \in Ends(words, Boundaries(words))}

SudoWithValue == {"-C", "-D", "-g", "-h", "-p", "-R", "-T", "-u"}

\* What _unwrap goes on with behind an executable.
Behind(executable) ==
    CASE executable \in {"sudo", "env"} -> executable
      [] executable \in {"command", "exec", "nohup", "time"} -> "options"
      [] OTHER -> "program"

\* One word for _unwrap.  The options of sudo are compared as written.
Unwrap ==
    [w \in Word |-> [mode \in Modes |->
        CASE mode = "program" -> "program"
          [] mode = "value" -> "sudo"
          [] mode = "sudo" /\ IsOption(w) ->
                IF w \in SudoWithValue THEN "value" ELSE "sudo"
          [] mode = "assignments" /\ Assigns(w) -> mode
          [] mode = "env" /\ (IsOption(w) \/ Assigns(w)) -> mode
          [] mode = "options" /\ IsOption(w) -> mode
          [] OTHER -> Behind(Stem(w))]]

\* _unwrap: the executable and its arguments.
Unwrapped(segment) == FromProgram(Unwrap, segment)

Targets(words) == {Lower(words[i]) : i \in {j \in DOMAIN words : ~IsOption(words[j])}}

Shells == {"bash", "dash", "fish", "ksh", "sh", "zsh"}

Flashes(executable, words) ==
    \/ executable = "arduino-cli" /\ "upload" \in Targets(words)
    \/ executable \in {"remoteocd", "openocd", "dfu-util", "bossac"}
    \/ executable = "west" /\ "flash" \in Targets(words)

Tests(executable, words) ==
    LET args == LowerAll(words)
        StartsWith(p) == IsPrefix(p, args)
    IN  \/ executable \in {"pytest", "pytest-3", "ctest", "jest", "vitest"}
        \/ /\ executable \in InterpreterNames
           /\ \E i \in 1..(Len(args) - 1) :
                  args[i] = "-m" /\ args[i + 1] = "pytest"
        \/ /\ executable \in {"npm", "pnpm", "yarn"}
           /\ StartsWith(<<"test">>) \/ StartsWith(<<"run", "test">>)
        \/ executable \in {"cargo", "go", "meson"} /\ StartsWith(<<"test">>)
        \/ executable = "make" /\ "test" \in Targets(words)
        \/ /\ executable \in {"npx", "pnpx"} /\ words # <<>>
           /\ Stem(Head(words)) \in {"jest", "vitest"}

Builds(executable, words) ==
    LET args == LowerAll(words)
        StartsWith(p) == IsPrefix(p, args)
    IN  \/ executable = "arduino-cli" /\ "compile" \in Targets(words)
        \/ executable = "cmake" /\ Contains(args, "--build")
        \/ executable \in {"ninja", "make"}
        \/ executable \in {"cargo", "vite"} /\ StartsWith(<<"build">>)
        \/ executable \in {"npm", "pnpm", "yarn"} /\ StartsWith(<<"run", "build">>)
        \/ executable \in {"npx", "pnpx"} /\ StartsWith(<<"vite", "build">>)

\* _command_state, with COMMAND for None: both leave the other segments alone.
CommandState(executable, words) ==
    CASE Flashes(executable, words) -> "FLASHING"
      [] ~Flashes(executable, words) /\ Tests(executable, words) -> "TESTING"
      [] ~Flashes(executable, words) /\ ~Tests(executable, words)
            /\ Builds(executable, words) -> "BUILDING"
      [] OTHER -> "COMMAND"

\* The executables of a command with their arguments, and what classify_bash
\* makes of the states it observed: the most important wins.
Commands(words) == {Unwrapped(s) : s \in Segments(words)} \ {<<>>}
Verdict(words, observed) ==
    IF \E i \in DOMAIN words : Unclosed(words[i]) THEN "COMMAND"
    ELSE IF "FLASHING" \in observed THEN "FLASHING"
    ELSE IF "TESTING" \in observed THEN "TESTING"
    ELSE IF "BUILDING" \in observed THEN "BUILDING" ELSE "COMMAND"

\* classify_bash at depth 1, where scripts are not looked into, and at depth 0:
\* a shell given a script with -c counts as what the script does.
StateOf(command) == CommandState(Stem(Head(command)), Tail(command))
ClassifyScript(words) == Verdict(words, {StateOf(c) : c \in Commands(words)})
ClassifyBash(words) ==
    LET Flag(command) == SelectInSeq(Tail(command), LAMBDA w : w \in {"-c", "-lc"})
        HasScript(command) ==
            /\ Stem(Head(command)) \in Shells
            /\ Flag(command) \in 1..(Len(command) - 2)
        OfCommand(command) ==
            IF HasScript(command)
            THEN ClassifyScript(Script(command[Flag(command) + 2]))
            ELSE StateOf(command)
    IN  Verdict(words, {OfCommand(c) : c \in Commands(words)})

-----------------------------------------------------------------------------
(* Tools.  A name is the sequence of the parts that its normalisation       *)
(* joins by underscores.  An input is of some `form'; an object has a value *)
(* of some form, or none, under each of three keys.                         *)

IsText(form) == form \in {"text", "list"}

\* The form of what _command_from_input finds: the first key that holds a
\* string or an array of strings.  An array at the top is not a command.
CommandForm(input) ==
    IF input.form = "object"
    THEN LET keys == <<"command", "cmd", "script">>
             k == SelectInSeq(keys, LAMBDA key : IsText(input.fields[key]))
         IN  IF k = 0 THEN "none" ELSE input.fields[keys[k]]
    ELSE IF input.form = "text" THEN "text" ELSE "none"

\* The words that reach classify_bash.
CommandOf(form, words) ==
    CASE form = "text" -> words
      [] form = "list" -> JoinLines(words)
      [] OTHER -> <<>>

EndsWith(name, part) == IsStrictSuffix(part, name)

IsShellTool(name) ==
    \/ name \in {<<"bash">>, <<"shell">>, <<"exec", "command">>,
                 <<"run", "command">>}
    \/ EndsWith(name, <<"exec", "command">>) \/ EndsWith(name, <<"run", "command">>)

IsWritingTool(name) ==
    \/ name \in {<<"apply", "patch">>, <<"edit">>, <<"multiedit">>,
                 <<"notebookedit">>, <<"write">>, <<"write", "file">>,
                 <<"create", "file">>}
    \/ Last(name) \in {"edit", "write"}
    \/ EndsWith(name, <<"apply", "patch">>) \/ EndsWith(name, <<"write", "file">>)
    \/ EndsWith(name, <<"create", "file">>)

IsReadingTool(name) ==
    \/ name \in {<<"read">>, <<"read", "file">>, <<"grep">>, <<"glob">>,
                 <<"search">>, <<"find">>, <<"list", "directory">>,
                 <<"list", "files">>, <<"search", "query">>}
    \/ Last(name) \in {"read", "grep", "glob", "search", "find"}
    \/ \E part \in {<<"read", "file">>, <<"search", "query">>,
                    <<"list", "directory">>, <<"list", "files">>} :
          EndsWith(name, part)

IsAgentTool(name) ==
    \/ name \in {<<"agent">>, <<"spawn", "agent">>, <<"subagent", "start">>}
    \/ EndsWith(name, <<"spawn", "agent">>) \/ EndsWith(name, <<"subagent", "start">>)

ClassifyTool(name, input, words) ==
    IF IsShellTool(name) THEN ClassifyBash(CommandOf(CommandForm(input), words))
    ELSE IF IsWritingTool(name) THEN "WRITING"
    ELSE IF IsReadingTool(name) THEN "READING"
    ELSE IF IsAgentTool(name) THEN "SUBAGENT" ELSE "COMMAND"

-----------------------------------------------------------------------------
(* Failures.  `reply' maps pairs of a place and a key to JSON values; the   *)
(* places are the hook's own object, the tool's response in it, and the     *)
(* `metadata' object of either.                                             *)

CodeKeys == {"exit_code", "return_code"}
ErrorKeys == {"error", "tool_error"}

Holds(reply, place, key, values) ==
    <<place, key>> \in DOMAIN reply /\ reply[<<place, key>>] \in values

\* explicit_failure of one object, without its metadata.  int() makes a
\* number of a fraction and of a numeral, and a boolean is no exit code.
SaysFailed(reply, place) ==
    \/ \E k \in CodeKeys : Holds(reply, place, k, {"number", "fraction", "numeral"})
    \/ Holds(reply, place, "status", {"failed"})
    \/ Holds(reply, place, "success", {"false"})
    \/ Holds(reply, place, "is_error", {"true"})
    \/ Holds(reply, place, "isError", {"true"})
    \/ \E k \in ErrorKeys :
          Holds(reply, place, k, {"true", "number", "fraction", "numeral",
                                  "text", "failed"})

\* normalize_hook_payload: the response with its metadata, or the hook's own
\* object, of which eleven keys are looked at and metadata is none of them.
ExplicitFailure(reply) ==
    \/ SaysFailed(reply, "response") \/ SaysFailed(reply, "response.metadata")
    \/ SaysFailed(reply, "root")
=============================================================================
