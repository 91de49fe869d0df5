------------------------------ MODULE CommandLine ------------------------------
(***************************************************************************)
(* What the launcher does to words: the parsing of its own arguments, the  *)
(* checks and the quoting of the wrapped command, and the environment of a  *)
(* leased child.  A word is a sequence of characters; an option of the      *)
(* launcher is one character, so that a word of the wrapped program may     *)
(* look exactly like an option.  The program that reads the command line    *)
(* parses it with the rules of CommandLineToArgvW.                          *)
(***************************************************************************)
EXTENDS Naturals, FiniteSetsExt, SequencesExt

Blank == " "        \* white space, all of which is quoted
Quote == "quote"
Backslash == "backslash"
Nul == "nul"

CONSTANT Characters     \* what words are made of

ASSUME CharactersAssumption == {Blank, Quote, Backslash} \subseteq Characters

Option(name) == <<name>>
Flags == {"--status", "--rescan", "--inject", "--help"}
Valued == {"--target-name", "--payload"}

-----------------------------------------------------------------------------
(* parse                                                                    *)

\* The positions that an option before them claims as its value.
IsValue(arguments) ==
    LET claimed[i \in Nat] ==
          i > 1 /\ arguments[i - 1] \in {Option(v) : v \in Valued} /\ ~claimed[i - 1]
    IN {i \in DOMAIN arguments : claimed[i]}

\* Where the first word "--" that is no value stands, or the end.
Separator(arguments) ==
    Min({i \in DOMAIN arguments \ IsValue(arguments) : arguments[i] = Option("--")}
          \cup {Len(arguments) + 1})

\* Diagnostics take precedence over a command given on the same line.
Parse(arguments) ==
    LET end == Separator(arguments)
        words == {arguments[i] : i \in (1..(end - 1)) \ IsValue(arguments)}
        given(names) == \E name \in names : Option(name) \in words
        command == SubSeq(arguments, end + 1, Len(arguments))
        wrong == \/ ~(words \subseteq {Option(o) : o \in Flags \cup Valued})
                 \/ /\ end > 1 /\ end - 1 \notin IsValue(arguments)
                    /\ arguments[end - 1] \in {Option(v) : v \in Valued}
                 \/ given({"--payload"}) /\ ~given({"--inject"})
    IN [mode |-> IF wrong THEN "usage"
                 ELSE IF given({"--help", "--status", "--rescan"}) THEN "diagnostic"
                 ELSE IF command = <<>> THEN "usage" ELSE "run",
        command |-> command]

-----------------------------------------------------------------------------
(* wide_command, quote_argument and the command line                        *)

ValidCommand(command) ==
    /\ command # <<>> /\ command[1] # <<>>
    /\ \A i \in DOMAIN command : Nul \notin Range(command[i])

Repeat(c, n) == [k \in 1..n |-> c]

\* One unit of a word: backslashes are held back until it is known what follows them.
Escape(state, unit) ==
    IF unit = Backslash THEN [text |-> state.text, backslashes |-> state.backslashes + 1]
    ELSE LET n == IF unit = Quote THEN 2 * state.backslashes + 1 ELSE state.backslashes
         IN [text |-> state.text \o Repeat(Backslash, n) \o <<unit>>, backslashes |-> 0]

Escaped(value) ==
    LET after[i \in 0..Len(value)] ==
            IF i = 0 THEN [text |-> <<Quote>>, backslashes |-> 0]
            ELSE Escape(after[i - 1], value[i])
    IN after[Len(value)]

NeedsQuotes(value) == value = <<>> \/ Blank \in Range(value) \/ Quote \in Range(value)

QuoteWithoutDoubling(value) ==
    IF ~NeedsQuotes(value) THEN value
    ELSE Escaped(value).text \o Repeat(Backslash, Escaped(value).backslashes) \o <<Quote>>

QuoteArgument(value) ==
    IF ~NeedsQuotes(value) THEN value
    ELSE Escaped(value).text \o Repeat(Backslash, 2 * Escaped(value).backslashes) \o <<Quote>>

\* launch_and_wait: the quoted words, with a blank between them.
Joined(command) ==
    LET line[i \in 0..Len(command)] ==
            IF i = 0 THEN <<>>
            ELSE line[i - 1] \o (IF line[i - 1] = <<>> THEN <<>> ELSE <<Blank>>)
                             \o QuoteArgument(command[i])
    IN line[Len(command)]

-----------------------------------------------------------------------------
(* CommandLineToArgvW, which the wrapped program's runtime applies.         *)

\* The program's name ends at a blank or, when quoted, at the next quote.
ProgramEnd(line) ==
    LET ends == IF line[1] = Quote THEN {i \in 2..Len(line) : line[i] = Quote}
                ELSE {i \in 1..Len(line) : line[i] = Blank} \cup {Len(line) + 1}
    IN Min(ends)

\* What has been read of the words behind it: those that have ended, and the one begun.
Unread == [words |-> <<>>, begun |-> FALSE, word |-> <<>>, backslashes |-> 0, quoted |-> FALSE]

Ended(state) ==
    IF state.begun
    THEN [Unread EXCEPT !.words =
            Append(state.words, state.word \o Repeat(Backslash, state.backslashes))]
    ELSE state

\* A quote that no odd number of backslashes precedes opens or closes a quotation, and
\* a blank outside of one ends a word.  Backslashes stand for themselves, except before
\* a quote.
Read(state, unit) ==
    LET n == state.backslashes
        add(units, quoted) ==
            [words |-> state.words, begun |-> TRUE, word |-> state.word \o units,
             backslashes |-> 0, quoted |-> quoted]
    IN CASE unit = Backslash -> [state EXCEPT !.begun = TRUE, !.backslashes = n + 1]
         [] unit = Quote /\ n % 2 = 0 -> add(Repeat(Backslash, n \div 2), ~state.quoted)
         [] unit = Quote /\ n % 2 = 1 ->
                add(Repeat(Backslash, n \div 2) \o <<Quote>>, state.quoted)
         [] unit = Blank /\ ~state.quoted -> Ended(state)
         [] OTHER -> add(Repeat(Backslash, n) \o <<unit>>, state.quoted)

Reads(state, line) ==
    LET after[i \in 0..Len(line)] ==
            IF i = 0 THEN state ELSE Read(after[i - 1], line[i])
    IN after[Len(line)]

WordsOf(line) == Ended(Reads(Unread, line)).words

ToArgv(line) ==
    LET program == SubSeq(line, IF line[1] = Quote THEN 2 ELSE 1, ProgramEnd(line) - 1)
    IN <<program>> \o WordsOf(SubSeq(line, ProgramEnd(line) + 1, Len(line)))

\* No program is found by a name with a quote in it, or by one that ends like a directory's.
NamesFile(word) == word # <<>> /\ Quote \notin Range(word) /\ word[Len(word)] # Backslash

-----------------------------------------------------------------------------
(* leased_environment_block: an entry has a name, as it is spelled, and a   *)
(* value.                                                                  *)

\* SDL_GAMECONTROLLER_IGNORE_DEVICES, of which the first letters will do.
Exclusion == <<"S", "D", "L">>

EqIgnoreAsciiCase(a, b) ==
    LET lowered(unit) == CASE unit = "S" -> "s" [] unit = "D" -> "d" [] unit = "L" -> "l"
                           [] OTHER -> unit
    IN Len(a) = Len(b) /\ \A i \in 1..Len(a) : lowered(a[i]) = lowered(b[i])

Excluded(entry) == EqIgnoreAsciiCase(entry.name, Exclusion)

LeasedEnvironmentBlock(environment) ==
    LET kept[i \in 0..Len(environment)] ==
            IF i = 0 THEN <<>>
            ELSE IF Excluded(environment[i]) THEN kept[i - 1]
            ELSE Append(kept[i - 1], environment[i])
    IN kept[Len(environment)]

================================================================================
