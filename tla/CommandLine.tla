----------------------------- MODULE CommandLine -----------------------------
(***************************************************************************)
(* oddjob_parse_args of src/src/util.c, by which the command line of a     *)
(* helper in the configuration becomes the arguments of its main.          *)
(***************************************************************************)
EXTENDS Naturals, Sequences, SequencesExt

CONSTANTS
  Letters,  \* characters without a meaning of their own
  NoError   \* the NULL error

Backslash == "\\"
Single    == "'"
Double    == "\""
Blank     == " "    \* also a tab and the line ends

Special    == {Backslash, Single, Double}
Characters == Letters \cup Special \cup {Blank}

NUL == "NUL"        \* what stands in the big buffer where a word ends

ASSUME LettersAssumption ==
  /\ Letters \cap {Backslash, Single, Double, Blank, NUL} = {}
  /\ NoError \notin {"Unmatched \"", "Unmatched '", "Attempt to escape end-of-command"}

(***************************************************************************)
(* The scan: one character of the line at a time, with the two quoting     *)
(* levels and the escape.  Neither a letter nor a blank ends an escape.    *)
(***************************************************************************)
Start == [buffer |-> << >>, single |-> FALSE, double |-> FALSE, escape |-> FALSE]

Put(s, c)     == [s EXCEPT !.buffer = Append(@, c)]
Literal(s, c) == [Put(s, c) EXCEPT !.escape = FALSE]

ScanSingleInDouble(s) ==                         \* mutant for ParsesAsMeant
  IF s.single THEN [s EXCEPT !.single = FALSE]
  ELSE IF s.escape THEN Literal(s, Single)
  ELSE [s EXCEPT !.single = TRUE]

ScanSingle(s) ==
  IF s.single THEN [s EXCEPT !.single = FALSE]
  ELSE IF s.escape \/ s.double THEN Literal(s, Single)
  ELSE [s EXCEPT !.single = TRUE]

ScanDouble(s) ==
  IF s.double THEN [s EXCEPT !.double = FALSE]
  ELSE IF s.escape \/ s.single THEN Literal(s, Double)
  ELSE [s EXCEPT !.double = TRUE]

ScanBackslash(s) ==
  IF s.escape \/ s.single \/ s.double THEN Literal(s, Backslash)
  ELSE [s EXCEPT !.escape = TRUE]

ScanBlank(s) == Put(s, IF s.escape \/ s.single \/ s.double THEN Blank ELSE NUL)

Scan(s, c) ==
  CASE c = Backslash -> ScanBackslash(s)
    [] c = Single    -> ScanSingle(s)
    [] c = Double    -> ScanDouble(s)
    [] c = Blank     -> ScanBlank(s)
    [] OTHER         -> Put(s, c)

Scanned(line) ==
  LET upTo[n \in 0 .. Len(line)] ==
        IF n = 0 THEN Start ELSE Scan(upTo[n - 1], line[n])
  IN  upTo[Len(line)]

(***************************************************************************)
(* The words of the buffer, between NULs, and the one that has begun; a    *)
(* word without characters is none.                                        *)
(***************************************************************************)
NoWords == [words |-> << >>, word |-> << >>]

Take(t, c) ==
  IF c # NUL THEN [t EXCEPT !.word = Append(@, c)]
  ELSE IF t.word = << >> THEN t
  ELSE [words |-> Append(t.words, t.word), word |-> << >>]

Taken(b) ==
  LET upTo[n \in 0 .. Len(b)] ==
        IF n = 0 THEN NoWords ELSE Take(upTo[n - 1], b[n])
  IN  upTo[Len(b)]

Split(b) == Take(Taken(b), NUL).words

ParseArgs(line) ==
  LET end   == Scanned(line)
      error == IF end.double THEN "Unmatched \""
               ELSE IF end.single THEN "Unmatched '"
               ELSE IF end.escape THEN "Attempt to escape end-of-command"
               ELSE NoError
  IN  [error |-> error, argv |-> IF error = NoError THEN Split(end.buffer) ELSE << >>]

(***************************************************************************)
(* How a character is written so that it stands for itself.                *)
(***************************************************************************)
Ways(c) ==
  (IF c \in Letters THEN {<<c>>} ELSE {})
  \cup (IF c \in Special THEN {<<Backslash, c>>} ELSE {})
  \cup (IF c # Single THEN {<<Single, c, Single>>} ELSE {})
  \cup (IF c # Double THEN {<<Double, c, Double>>} ELSE {})

\* A blank outside of quotes separates: what is left and what is right of it
\* are parsed each for itself.
SumOfParts(line) ==
  \A i \in DOMAIN line :
    LET left  == ParseArgs(SubSeq(line, 1, i - 1))
        right == ParseArgs(SubSeq(line, i + 1, Len(line)))
    IN  line[i] = Blank /\ left.error = NoError =>
          ParseArgs(line) =
            [error |-> right.error,
             argv  |-> IF right.error = NoError THEN left.argv \o right.argv
                       ELSE << >>]
=============================================================================
