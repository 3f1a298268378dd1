-------------------------- MODULE NativeClassifier --------------------------
(***************************************************************************)
(* The native hook's classifier, unoq-codex-matrix-hook.c: the program     *)
(* that runs on the board.  It walks over arrays of tokens; here a range   *)
(* of tokens is a sequence of words.                                       *)
(***************************************************************************)
EXTENDS CommandWords

CONSTANT TokenLimit    \* TOKEN_LIMIT

\* The tokens of a command.  shell_tokens makes one of every word, and one of
\* every separator outside of quotes.
Tokens(words) == [i \in DOMAIN words |-> Lexicon[words[i]].token]

\* It marks a separator as a boundary only if it is neither quoted nor escaped.
Bare(w) == Lexicon[w].separator = "bare"
BareBoundaries(tokens) == {i \in DOMAIN tokens : Bare(tokens[i])}

\* shell_tokens fails on an open quote and when its array is full.
GivesUp(tokens) ==
    Len(tokens) > TokenLimit \/ \E i \in DOMAIN tokens : Unclosed(tokens[i])

\* strings that equal_ci compares with a word
Is(w, names) == Lower(w) \in names
IsFile(w, names) == File(w) \in names

\* The options of sudo, compared without regard to case.
SudoValueOptions == {"-c", "-d", "-g", "-h", "-p", "-r", "-t", "-u"}

\* Plausible bug: the value of an option is taken for the command.
Bug_ValueKept(option) == "sudo"
AfterSudoOption(option) == IF Is(option, SudoValueOptions) THEN "value" ELSE "sudo"

\* One word for the first loops of classify_segment.
Skip ==
    [w \in Word |-> [mode \in Modes |->
        CASE mode = "program" -> "program"
          [] mode = "value" -> "sudo"
          [] mode = "sudo" /\ IsOption(w) -> AfterSudoOption(w)
          [] mode = "assignments" /\ Assigns(w) -> mode
          [] mode = "env" /\ (IsOption(w) \/ Assigns(w)) -> mode
          [] mode = "options" /\ IsOption(w) -> mode
          [] OTHER ->
                IF IsFile(w, {"sudo"}) THEN "sudo"
                ELSE IF IsFile(w, {"env"}) THEN "env"
                ELSE IF IsFile(w, {"command", "exec", "nohup", "time"})
                THEN "options" ELSE "program"]]
SkipWrappers(segment) == FromProgram(Skip, segment)

\* has_argument and has_any_argument, and the argument at position i.
HasArgument(words, name) ==
    \E i \in 2..Len(words) : ~IsOption(words[i]) /\ Is(words[i], {name})
HasAnyArgument(words, name) == \E i \in 2..Len(words) : Is(words[i], {name})
Argument(words, i, names) == i < Len(words) /\ Is(words[i + 1], names)

ShellNames == {"bash", "dash", "fish", "ksh", "sh", "zsh"}

\* Where the script of `sh -c script' is, or 0.
ScriptAt(words) ==
    LET flags == {i \in 2..(Len(words) - 1) : Is(words[i], {"-c", "-lc"})}
    IN  IF flags # {} /\ IsFile(Head(words), ShellNames) THEN 1 + Min(flags) ELSE 0

IsFlashing(words) ==
    LET Runs(names) == IsFile(Head(words), names)
    IN  \/ Runs({"arduino-cli"}) /\ HasArgument(words, "upload")
        \/ Runs({"remoteocd", "openocd", "dfu-util", "bossac"})
        \/ Runs({"west"}) /\ HasArgument(words, "flash")

IsTesting(words) ==
    LET Runs(names) == IsFile(Head(words), names)
        Arg(i, names) == Argument(words, i, names)
    IN  \/ Runs({"pytest", "pytest-3", "ctest", "jest", "vitest"})
        \/ /\ Stem(Head(words)) \in InterpreterNames
           /\ \E i \in 1..Len(words) : Arg(i, {"-m"}) /\ Arg(i + 1, {"pytest"})
        \/ /\ Runs({"npm", "pnpm", "yarn"})
           /\ Arg(1, {"test"}) \/ (Arg(1, {"run"}) /\ Arg(2, {"test"}))
        \/ Runs({"cargo", "go", "meson"}) /\ Arg(1, {"test"})
        \/ Runs({"make"}) /\ HasArgument(words, "test")
        \/ /\ Runs({"npx", "pnpx"}) /\ Len(words) > 1
           /\ IsFile(words[2], {"jest", "vitest"})

IsBuilding(words) ==
    LET Runs(names) == IsFile(Head(words), names)
        Arg(i, names) == Argument(words, i, names)
    IN  \/ Runs({"arduino-cli"}) /\ HasArgument(words, "compile")
        \/ Runs({"cmake"}) /\ HasAnyArgument(words, "--build")
        \/ Runs({"ninja", "make"})
        \/ Runs({"cargo", "vite"}) /\ Arg(1, {"build"})
        \/ Runs({"npm", "pnpm", "yarn"}) /\ Arg(1, {"run"}) /\ Arg(2, {"build"})
        \/ Runs({"npx", "pnpx"}) /\ Arg(1, {"vite"}) /\ Arg(2, {"build"})

\* The last returns of classify_segment, the first that applies.
ProgramState(words) ==
    IF words = <<>> THEN "COMMAND"
    ELSE IF IsFlashing(words) THEN "FLASHING"
    ELSE IF IsTesting(words) THEN "TESTING"
    ELSE IF IsBuilding(words) THEN "BUILDING" ELSE "COMMAND"

\* Plausible bug: the last segment that is known wins.
Bug_LastWins(observed, state) == IF state = "COMMAND" THEN observed ELSE state
\* What classify_shell keeps of the state of one more segment.
Observe(observed, state) ==
    CASE "FLASHING" \in {observed, state} -> "FLASHING"
      [] "FLASHING" \notin {observed, state} /\ state = "TESTING" -> "TESTING"
      [] state = "BUILDING" /\ observed = "COMMAND" -> "BUILDING"
      [] OTHER -> observed

CommandStates == {"COMMAND", "BUILDING", "TESTING", "FLASHING"}
Observing ==
    [state \in CommandStates |-> [observed \in CommandStates |-> Observe(observed, state)]]

\* The loop of classify_shell over the tokens and the end, each with the state
\* of the segment that ends there.  Text that cannot be tokenised is a COMMAND.
ShellState(tokens, Classify(_)) ==
    LET cuts == BareBoundaries(tokens)
        states == [j \in 1..(Len(tokens) + 1) |->
                      IF j \in Ends(tokens, cuts)
                      THEN Classify(SegmentTo(j, tokens, cuts)) ELSE "COMMAND"]
    IN  IF GivesUp(tokens) THEN "COMMAND"
        ELSE Reading(Observing, "COMMAND", states)[Len(tokens) + 1]

\* classify_shell and classify_segment at depth 1, where a script is not looked
\* into, and at depth 0.
NestedSegment(segment) == ProgramState(SkipWrappers(segment))
NestedShell(words) == ShellState(Tokens(words), NestedSegment)
ClassifySegment(segment) ==
    LET words == SkipWrappers(segment)
    IN  IF ScriptAt(words) # 0 THEN NestedShell(Script(words[ScriptAt(words)]))
        ELSE ProgramState(words)
ClassifyShell(words) == ShellState(Tokens(words), ClassifySegment)

-----------------------------------------------------------------------------
(* Tools: names and inputs as in ReferenceClassifier.                       *)

\* Plausible bug: only whole names are known, not those of an MCP server.
Bug_WholeName(name, wanted) == name \in wanted
\* name_or_suffix
NameOrSuffix(name, wanted) == \E w \in wanted : IsSuffix(w, name)

\* The form of the value classify_tool takes for the command.  Outside an
\* object it is the input itself, a string or an array.
CommandValue(input) ==
    IF input.form = "object"
    THEN LET usable == {k \in DOMAIN input.fields :
                            input.fields[k] \in {"text", "list"}}
         IN  CASE "command" \in usable -> input.fields.command
               [] "command" \notin usable /\ "cmd" \in usable -> input.fields.cmd
               [] usable = {"script"} -> input.fields.script
               [] OTHER -> "none"
    ELSE input.form

ClassifyNamed(name, input, words) ==
    IF NameOrSuffix(name, {<<"bash">>, <<"shell">>, <<"exec", "command">>,
                           <<"run", "command">>})
    THEN CASE CommandValue(input) = "text" -> ClassifyShell(words)
           [] CommandValue(input) = "list" -> ClassifyShell(JoinLines(words))
           [] OTHER -> "COMMAND"
    ELSE IF NameOrSuffix(name, {<<"apply", "patch">>, <<"edit">>,
                <<"multiedit">>, <<"notebookedit">>, <<"write">>,
                <<"write", "file">>, <<"create", "file">>}) THEN "WRITING"
    ELSE IF NameOrSuffix(name, {<<"read">>, <<"read", "file">>, <<"grep">>,
                <<"glob">>, <<"search">>, <<"find">>, <<"list", "directory">>,
                <<"list", "files">>, <<"search", "query">>}) THEN "READING"
    ELSE IF NameOrSuffix(name, {<<"agent">>, <<"spawn", "agent">>,
                <<"subagent", "start">>}) THEN "SUBAGENT"
    ELSE "COMMAND"

-----------------------------------------------------------------------------
(* Failures, with replies as in ReferenceClassifier.                        *)

Finds(reply, place, key) == <<place, key>> \in DOMAIN reply
Value(reply, place, key) == reply[<<place, key>>]
FindsAny(reply, place, key, values) ==
    Finds(reply, place, key) /\ Value(reply, place, key) \in values

\* json_number_nonzero takes whole numbers, also as a string.
NonZero == {"number", "numeral"}
\* meaningful_value: not null, false, zero or empty.
Meaningful == {"true", "number", "fraction", "numeral", "text", "failed"}

\* explicit_failure of one object.  isError is read only without is_error.
ObjectFailed(reply, place) ==
    \/ \E k \in {"exit_code", "return_code"} : FindsAny(reply, place, k, NonZero)
    \/ FindsAny(reply, place, "status", {"failed"})
    \/ FindsAny(reply, place, "success", {"false"})
    \/ IF Finds(reply, place, "is_error")
       THEN Value(reply, place, "is_error") = "true"
       ELSE FindsAny(reply, place, "isError", {"true"})
    \/ \E k \in {"error", "tool_error"} : FindsAny(reply, place, k, Meaningful)

\* Plausible bug: the metadata of the response is not looked at.
Bug_MetadataForgotten(reply) ==
    \E place \in {"response", "root"} : ObjectFailed(reply, place)
\* main: the response or the whole hook object, each with its metadata.
Failed(reply) ==
    \E place \in {"response", "response.metadata", "root", "root.metadata"} :
        ObjectFailed(reply, place)
=============================================================================
