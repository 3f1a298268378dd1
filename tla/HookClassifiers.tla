--------------------------- MODULE HookClassifiers ---------------------------
(***************************************************************************)
(* Every tool invocation a hook may be given, and what the two hook        *)
(* programs make of it.  An invocation grows word by word or field by      *)
(* field, so that each state is one more invocation to compare.            *)
(***************************************************************************)
EXTENDS ReferenceClassifier, NativeClassifier

CONSTANTS
    Tools,       \* tool names, as sequences of their parts
    Inputs,      \* forms of tool_input
    Places,      \* objects of a reply that may hold a field
    Keys,
    Values,      \* kinds of JSON values
    Vocabularies,\* bound: sets of words that occur in one command
    MaxWords,    \* bound: words of a command given as a string to `bash'
    MaxFields    \* bound: fields of a reply

\* The words on which the programs are to agree.  They do not on a separator
\* that is quoted or escaped, on a backslash in double quotes, on a file name
\* that ends in `.exe', and on an option that is an option with a value, or a
\* shell's -c, but for the case of its letter.
ASSUME WordAssumption ==
    /\ \A v \in Vocabularies : v \subseteq Word
    /\ \A w \in Word :
          /\ Boundary(w) => Bare(w)
          /\ Lexicon[w].token = w
          /\ File(w) = Stem(w)
          /\ Lower(w) \in SudoValueOptions => w \in SudoWithValue
          /\ w \in SudoWithValue => Lower(w) \in SudoValueOptions
          /\ Lower(w) \in {"-c", "-lc"} <=> w \in {"-c", "-lc"}

\* Only the native hook takes any last part of a name for one of these tools,
\* takes an array for a command outside of an object, and looks at metadata
\* beside the response; only the reference takes a fraction for an exit code.
WholeNames == {<<"bash">>, <<"shell">>, <<"multiedit">>, <<"notebookedit">>}
Field == {"none", "other", "text", "list"}
ASSUME CallAssumption ==
    /\ \A name \in Tools :
          /\ name \in Seq(STRING) \ {<<>>}
          /\ \A part \in WholeNames : ~EndsWith(name, part)
          /\ EndsWith(name, <<"agent">>) => IsSuffix(<<"spawn", "agent">>, name)
    /\ Inputs \subseteq
          [form : {"none", "other", "text"}] \cup
          [form : {"object"}, fields : [{"command", "cmd", "script"} -> Field]]
    /\ Places \subseteq {"response", "response.metadata", "root"}
    /\ "fraction" \notin Values

\* Only the native hook gives up on a long command, of more words and single
\* characters that separate them than its array holds: no command, no script,
\* no two scripts joined and no command behind a wrapper has more.
ASSUME LimitAssumption ==
    /\ MaxWords \in Nat /\ TokenLimit \in Nat
    /\ MaxWords + 3 <= TokenLimit
    /\ \A w \in Word : 2 * Len(Script(w)) + 2 <= TokenLimit

\* The wrappers of WrappersAreTransparent are what they look like.
ASSUME WrapperAssumption ==
    \A w \in Word :
        /\ w \in {"sudo", "env", "time", "-u", "run", "A=1"} => ~Bare(w) /\ ~Unclosed(w)
        /\ w \in {"sudo", "env", "time"} => File(w) = w /\ ~Assigns(w)
        /\ w = "-u" => IsOption(w) /\ Lower(w) = w
        /\ w = "A=1" => Assigns(w)

VARIABLES tool, input, words, command, reply
vars == <<tool, input, words, command, reply>>

Plainly == tool = <<"bash">> /\ input = [form |-> "text"]

Init ==
    /\ tool \in Tools /\ input \in Inputs
    /\ tool = <<"bash">> \/ input = [form |-> "text"]
    /\ words \in Vocabularies \cup {{}}
    /\ command = <<>> /\ reply = << >>

\* The command of a PreToolUse hook has one more word, and an array one more
\* string.  What is written behind an open quote would belong to its word, and
\* the strings of an array, as those of other tools, are lines.
AddWord(w) ==
    /\ w \in words
    /\ \A i \in DOMAIN command : ~Unclosed(command[i])
    /\ Plainly \/ IsLine(w)
    /\ Len(command) < IF Plainly THEN MaxWords ELSE 2
    /\ command' = Append(command, w)
    /\ UNCHANGED <<tool, input, words, reply>>

\* The reply in a PostToolUse hook has one more field.
AddField(place, key, value) ==
    /\ words = {} /\ Plainly
    /\ <<place, key>> \notin DOMAIN reply
    /\ Cardinality(DOMAIN reply) < MaxFields
    /\ reply' = [f \in DOMAIN reply \cup {<<place, key>>} |->
                    IF f = <<place, key>> THEN value ELSE reply[f]]
    /\ UNCHANGED <<tool, input, words, command>>

Next ==
    \/ \E w \in Word : AddWord(w)
    \/ \E p \in Places, k \in Keys, v \in Values : AddField(p, k, v)

Spec == Init /\ [][Next]_vars

shown == ClassifyNamed(tool, input, command)

-----------------------------------------------------------------------------
(* Properties *)

\* The native hook classifies a tool call as the Python reference does, within
\* the assumptions on words, calls and lengths above.
NativeMatchesReference == shown = ClassifyTool(tool, input, command)

\* Both find the same failures in a reply, unless an object has the flag
\* is_error under both its names: the native hook then reads only the first.
FailuresMatch ==
    (\A p \in Places : ~({<<p, "is_error">>, <<p, "isError">>} \subseteq DOMAIN reply))
        => (Failed(reply) <=> ExplicitFailure(reply))

Importance == [COMMAND |-> 0, BUILDING |-> 1, TESTING |-> 2, FLASHING |-> 3]

\* A compound command that fits into the array of tokens shows the most
\* important activity of its parts, wherever it is cut.
MostImportantWins ==
    Plainly /\ (\A i \in DOMAIN command : ~Unclosed(command[i])) =>
        \A i \in DOMAIN command : Bare(command[i]) =>
            LET before == ClassifyShell(SubSeq(command, 1, i - 1))
                after == ClassifyShell(SubSeq(command, i + 1, Len(command)))
            IN  Importance[shown] =
                    IF Importance[before] > Importance[after]
                    THEN Importance[before] ELSE Importance[after]

\* Words put before a command that only say how to run it do not change what
\* it is shown as.
WrappersAreTransparent ==
    Plainly /\ command # <<>> /\ ~IsOption(command[1]) /\ ~Assigns(command[1]) =>
        \A wrapper \in {<<"sudo">>, <<"env">>, <<"time">>, <<"sudo", "-u", "run">>,
                        <<"env", "A=1">>} :
            ToSet(wrapper) \subseteq words =>
                ClassifyShell(wrapper \o command) = shown
=============================================================================
