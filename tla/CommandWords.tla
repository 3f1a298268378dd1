---------------------------- MODULE CommandWords ----------------------------
(***************************************************************************)
(* What the two hook programs can tell about the words of a shell command. *)
(* A command is a sequence of words as they are written; Lexicon says what *)
(* each program makes of the text of a word.                               *)
(***************************************************************************)
EXTENDS Naturals, Sequences, FiniteSetsExt, SequencesExt

CONSTANTS
    Word,      \* the words of commands
    Lexicon,   \* what is known of each word
    Newline    \* the word that stands for a newline

\* A `bare' separator is one of the characters ; & | ( ) or a newline, so that
\* && is two words; a `quoted' one is a run of them in quotes, and an `escaped'
\* one is a newline behind a backslash.  `file' is the last part of a path in
\* lower case, `stem' the same without `.exe'.  `token' is the word as
\* shell_tokens reads it, which drops a backslash inside of double quotes that
\* shlex may keep.  `script' is what the text of the word reads as when it is
\* taken for a command of its own.  An `unclosed' word has a lone quote, or a
\* backslash with nothing behind it: it is the last of its command.
ASSUME LexiconAssumption == \A w \in Word :
    LET e == Lexicon[w]
    IN  /\ {e.option, e.assigns, e.unclosed} \subseteq BOOLEAN
        /\ e.separator \in {"no", "bare", "quoted", "escaped"}
        /\ e.token \in Word
        /\ e.script \in Seq(Word)
        /\ \A i \in 1..(Len(e.script) - 1) : ~Lexicon[e.script[i]].unclosed
ASSUME NewlineAssumption == Newline \in Word

Lower(w) == Lexicon[w].lower
File(w) == Lexicon[w].file
Stem(w) == Lexicon[w].stem
IsOption(w) == Lexicon[w].option
Assigns(w) == Lexicon[w].assigns
Unclosed(w) == Lexicon[w].unclosed
Script(w) == Lexicon[w].script

LowerAll(words) == [i \in DOMAIN words |-> Lower(words[i])]

\* A loop over a sequence: what has become of `start' behind each element.
\* step[e] says what the element e makes of it.
Reading(step, start, seq) ==
    LET read[i \in 0..Len(seq)] ==
            IF i = 0 THEN start ELSE step[seq[i]][read[i - 1]]
    IN  read

\* The loops of the two programs over a segment, one inside the other: a word
\* is an assignment before the command, an option of sudo or its value, an
\* option of env or of another wrapper, or belongs to the program.
Modes == {"assignments", "sudo", "value", "env", "options", "program"}

\* The words from the program on, where scan is the step of those loops.
FromProgram(scan, words) ==
    LET mode == Reading(scan, "assignments", words)
        reached == {i \in DOMAIN words : mode[i] = "program"}
    IN  IF reached = {} THEN <<>> ELSE SubSeq(words, Min(reached), Len(words))

\* A segment ends at each cut and behind the last word, and begins behind the
\* cut before.
Ends(words, cuts) == cuts \cup {Len(words) + 1}
SegmentTo(j, words, cuts) ==
    SubSeq(words, 1 + Max({0} \cup {c \in cuts : c < j}), j - 1)

\* A string that a newline may be put behind: it would be quoted or escaped
\* behind one that is not closed.
IsLine(w) == \A i \in DOMAIN Script(w) : ~Unclosed(Script(w)[i])

\* An array of strings is joined by newlines: each is a command of its own, if
\* it is a line.
JoinLines(words) ==
    FlattenSeq([i \in DOMAIN words |-> Append(Script(words[i]), Newline)])

\* The executables whose name begins with python or pypy.
InterpreterNames == {"python", "python3", "pypy", "pypy3"}
=============================================================================
