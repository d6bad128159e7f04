---------------------------- MODULE ConsoleLine ----------------------------
(***************************************************************************)
(* ui.Live of src/pkg/ui/ui.go: the status line is "<spinner> <msg>", cut  *)
(* until it has no more runes than the console is wide and then padded     *)
(* with spaces to the full width.  The cut removes the last four BYTES and *)
(* appends "…" (three bytes, one rune) while the loop counts RUNES.        *)
(*                                                                         *)
(* A string is its sequence of bytes, each abstracted to its UTF-8 class:  *)
(* a lead byte of a rune of w bytes is w (1 = ASCII), a continuation byte  *)
(* is 0.  A message is a sequence of rune widths, encoded into bytes.      *)
(***************************************************************************)
EXTENDS Integers, Sequences, SequencesExt

CONSTANTS
    Width,     \* the widths ConsoleWidth can return
    RuneWidth, \* byte lengths of the runes messages are made of
    MaxRunes   \* bound on the runes of a message

ASSUME ConstAssumption ==
    /\ Width \subseteq Nat \ {0}
    /\ RuneWidth \subseteq 1..3 /\ 1 \in RuneWidth
    /\ MaxRunes \in Nat

Cont == 0

\* The bytes of one rune, and of a message (UTF-8 encoding).
RuneBytes(w) == <<w>> \o [i \in 1..(w - 1) |-> Cont]

Encode(text) == FlattenSeq([i \in DOMAIN text |-> RuneBytes(text[i])])

Ellipsis == RuneBytes(3)

Space == <<1>>

\* A rune of w bytes starts at byte i of s.
RuneAt(s, i) ==
    /\ s[i] \in 1..3
    /\ i + s[i] - 1 <= Len(s)
    /\ \A j \in (i + 1)..(i + s[i] - 1) : s[j] = Cont

\* utf8.RuneCountInString: a valid encoding counts one rune; an erroneous
\* or short one counts as a rune of one byte.
RECURSIVE RunesFrom(_, _)
RunesFrom(s, i) ==
    IF i > Len(s) THEN 0
    ELSE IF RuneAt(s, i) THEN 1 + RunesFrom(s, i + s[i])
    ELSE 1 + RunesFrom(s, i + 1)

RuneCount(s) == RunesFrom(s, 1)

VARIABLES
    text,   \* the message passed to Live (after strings.TrimSpace)
    width,  \* lineLength, from ConsoleWidth
    msg,    \* the line being built
    phase   \* "cut", "pad", "printed", or "panic" (slice out of range)

vars == <<text, width, msg, phase>>

TypeOK ==
    /\ text \in Seq(RuneWidth)
    /\ width \in Width
    /\ msg \in Seq(0..3)
    /\ phase \in {"cut", "pad", "printed", "panic"}

\* fmt.Sprintf("%s %s", spinner.Next(), strings.TrimSpace(msg)): the
\* spinner frames of spin.Spin1 are ASCII.
Init ==
    /\ text \in SeqOf(RuneWidth, MaxRunes)
    /\ width \in Width
    /\ msg = <<1>> \o Space \o Encode(text)
    /\ phase = "cut"

\* One pass of the first loop: msg = msg[0:len(msg)-4] + "…", a run-time
\* panic when msg has fewer than four bytes; the loop ends once the rune
\* count fits.
Cut ==
    /\ phase = "cut"
    /\ IF RuneCount(msg) <= width
         THEN phase' = "pad" /\ UNCHANGED msg
       ELSE IF Len(msg) < 4
         THEN phase' = "panic" /\ UNCHANGED msg
       ELSE msg' = SubSeq(msg, 1, Len(msg) - 4) \o Ellipsis
            /\ UNCHANGED phase
    /\ UNCHANGED <<text, width>>

\* Mutant: padding goes on while the line is not longer than the console.
PadToOverflow ==
    /\ phase = "pad"
    /\ IF RuneCount(msg) <= width
         THEN msg' = msg \o Space /\ UNCHANGED phase
         ELSE phase' = "printed" /\ UNCHANGED msg
    /\ UNCHANGED <<text, width>>

\* One pass of the second loop, msg = msg + " ", and fmt.Printf once the
\* line has the console's width.
Pad ==
    /\ phase = "pad"
    /\ IF RuneCount(msg) < width
         THEN msg' = msg \o Space /\ UNCHANGED phase
         ELSE phase' = "printed" /\ UNCHANGED msg
    /\ UNCHANGED <<text, width>>

\* Live has returned or panicked.
Finished ==
    /\ phase \in {"printed", "panic"}
    /\ UNCHANGED vars

Next == Cut \/ Pad \/ Finished

Spec == Init /\ [][Next]_vars /\ WF_vars(Cut \/ Pad)

-----------------------------------------------------------------------------
(* Properties                                                              *)

\* Live implements LiveSpec: for an ASCII message it prints, once, the
\* formatted line fitted to exactly the console's width; every pass of its
\* two loops is a stutter of the one-step specification, and printing is
\* its step.
Live == INSTANCE LiveSpec WITH
    line <- <<1>> \o Space \o Encode(text),
    printed <- phase = "printed",
    out <- IF phase = "printed" THEN msg ELSE <<>>

ImplementsLiveSpec == Live!Spec

====
