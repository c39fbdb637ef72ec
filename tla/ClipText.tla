------------------------------ MODULE ClipText ------------------------------
(***************************************************************************)
(* What clipmenu's programs do with the text of a clip: clipmenud decides  *)
(* whether it is worth storing and whether it is a partial of the last     *)
(* one, the store keeps its first line and the number of its lines,        *)
(* clipmenu makes of them the line it shows, and reads the number of the   *)
(* clip from the line that the user has chosen.                            *)
(*                                                                         *)
(* The texts come from a user who drags the mouse over a document, and an  *)
(* application that makes a selection of every step, of which clipmenud    *)
(* gets some.                                                              *)
(***************************************************************************)
EXTENDS Naturals, SequencesExt

CONSTANTS
  Chars,      \* the characters of texts; NUL is not one of them
  Spaces,     \* isspace()
  NewLine,
  NoText,     \* NULL
  LineSize,   \* CS_SNIP_LINE_SIZE
  MaxStrlen,  \* UINT64_MAX_STRLEN
  Documents,  \* what the user selects from
  MaxKept     \* bound: a drag is over when so many clips have been stored

ASSUME CharAssumption == /\ NewLine \in Spaces /\ Spaces \subseteq Chars
                         /\ NewLine # "."
ASSUME NoTextAssumption == NoText \notin Seq(Chars)
ASSUME SizeAssumption == /\ LineSize \in Nat /\ LineSize >= 5
                         /\ MaxStrlen \in Nat /\ MaxStrlen >= 2
ASSUME DocumentAssumption == Documents \subseteq Seq(Chars)
ASSUME KeptAssumption == MaxKept \in Nat

VARIABLES
  doc,    \* the document
  anchor, \* after how many characters the user has pressed the button
  sides,  \* history: on which sides of it selections have been collected
  last,   \* last_text of store_clip()
  kept    \* the clips it has stored

textVars == <<doc, anchor, sides, last, kept>>

Shorter(a, b) == IF a < b THEN a ELSE b

-----------------------------------------------------------------------------
(***************************************************************************)
(* clipmenud                                                               *)
(***************************************************************************)
is_salient_text(str) == \E i \in DOMAIN str : str[i] \notin Spaces

IsPrefixOfOther(s1, s2) ==
  \A i \in 1 .. Shorter(Len(s1), Len(s2)) : s1[i] = s2[i]

is_possible_partial(s1, s2) ==
  \/ IsPrefixOfOther(s1, s2)
  \/ IF Len(s1) < Len(s2)
     THEN s1 = SubSeq(s2, Len(s2) - Len(s1) + 1, Len(s2))
     ELSE s2 = SubSeq(s1, Len(s1) - Len(s2) + 1, Len(s1))

TextInit ==
  /\ doc \in Documents /\ anchor \in 0 .. Len(doc)
  /\ sides = {} /\ last = NoText /\ kept = <<>>

\* The mouse is after c characters: what lies between it and the anchor.
Selection(c) == IF c < anchor THEN SubSeq(doc, c + 1, anchor)
                ELSE SubSeq(doc, anchor + 1, c)

\* store_clip(), within PARTIAL_MAX_SECS of the last time, of a selection that
\* handle_property_notify() finds salient: cs_replace() or cs_add().
DragTo(c) ==
  /\ c \in 0 .. Len(doc) /\ is_salient_text(Selection(c))
  /\ IF last # NoText /\ is_possible_partial(last, Selection(c))
     THEN kept' = [kept EXCEPT ![Len(kept)] = Selection(c)]
     ELSE Len(kept) < MaxKept /\ kept' = Append(kept, Selection(c))
  /\ last' = Selection(c)
  /\ sides' = sides \union {IF c < anchor THEN "left" ELSE "right"}
  /\ UNCHANGED <<doc, anchor>>

TextNext == \E c \in 0 .. Len(doc) : DragTo(c)

TextSpec == TextInit /\ [][TextNext]_textVars

-----------------------------------------------------------------------------
(***************************************************************************)
(* The store                                                               *)
(***************************************************************************)
\* Where the line ends that has str[i] in it: strcspn().
LineEnd(str, i) ==
  LET ends == {j \in i .. Len(str) : str[j] = NewLine} \union {Len(str) + 1}
  IN  (CHOOSE j \in ends : \A k \in ends : j <= k) - 1

\* The line from i on, cut to what snprintf() has room for.
CutLine(str, i) ==
  SubSeq(str, i, Shorter(LineEnd(str, i), i + LineSize - 2))

\* The loop of first_line(): what it has found after so many characters.
LinesSeen(str) ==
  LET seen[i \in 0 .. Len(str)] ==
        IF i = 0 THEN [nr |-> 0, found |-> FALSE, out |-> <<>>]
        ELSE LET s == seen[i - 1]
             IN  [nr |-> s.nr + (IF str[i] = NewLine THEN 1 ELSE 0),
                  found |-> s.found \/ str[i] # NewLine,
                  out |-> IF ~s.found /\ str[i] # NewLine
                          THEN CutLine(str, i) ELSE s.out]
  IN  seen

first_line(str) ==
  LET s == LinesSeen(str)[Len(str)]
  IN  [line |-> s.out,
       nr_lines |-> s.nr + (IF s.found /\ Last(str) # NewLine THEN 1 ELSE 0)]

-----------------------------------------------------------------------------
(***************************************************************************)
(* clipmenu                                                                *)
(***************************************************************************)
Digits == <<"0", "1", "2", "3", "4", "5", "6", "7", "8", "9">>

\* printf("%zu")
Decimal[n \in Nat] == (IF n < 10 THEN <<>> ELSE Decimal[n \div 10])
                        \o <<Digits[(n % 10) + 1]>>

get_padding_length[n \in Nat] ==
  1 + (IF n < 10 THEN 0 ELSE get_padding_length[n \div 10])

Blanks(n) == [i \in 1 .. n |-> " "]

\* printf("[%*zu] ")
Numbered(n, total) ==
  <<"[">> \o Blanks(get_padding_length[total] - Len(Decimal[n]))
    \o Decimal[n] \o <<"]", " ">>

\* Dots for a line that has no end within its snip.
EllipsisedLate(line) ==
  IF Len(line) = LineSize
  THEN SubSeq(line, 1, LineSize - 4) \o <<".", ".", ".">> ELSE line

\* dprintf_ellipsise_long_snip_line()
Ellipsised(line) ==
  IF Len(line) = LineSize - 1
  THEN SubSeq(line, 1, LineSize - 4) \o <<".", ".", ".">> ELSE line

\* What clipmenu writes for clip n of `total`.
Listed(n, total, str) ==
  LET snip == first_line(str)
  IN  Numbered(n, total) \o Ellipsised(snip.line)
        \o (IF snip.nr_lines > 1
            THEN <<" ", "(">> \o Decimal[snip.nr_lines] \o <<" lines)">>
            ELSE <<>>)

DigitValue(d) == (CHOOSE k \in DOMAIN Digits : Digits[k] = d) - 1

\* The number that the first digits are, for any number of them.
ValueOf(digits) ==
  LET value[i \in 0 .. Len(digits)] ==
        IF i = 0 THEN 0 ELSE 10 * value[i - 1] + DigitValue(digits[i])
  IN  value

\* str_to_uint64() skips blanks and takes digits only; 0 is not a clip, and
\* stands for an error, too.  (What clipmenu writes has no sign.)
str_to_uint64(str) ==
  LET blanks == {i \in DOMAIN str : \A j \in 1 .. i : str[j] = " "}
      digits == SubSeq(str, Cardinality(blanks) + 1, Len(str))
  IN  IF Range(digits) \subseteq Range(Digits)
      THEN ValueOf(digits)[Len(digits)] ELSE 0

\* A search for the last bracket.
LastBracket(str) == CHOOSE i \in 1 .. Len(str) + 1 :
  /\ i = Len(str) + 1 \/ str[i] = "]"
  /\ \A j \in i + 1 .. Len(str) : str[j] # "]"

\* strchr(), or the end of what has been read.
Bracket(str) == CHOOSE i \in 1 .. Len(str) + 1 :
  /\ i = Len(str) + 1 \/ str[i] = "]"
  /\ \A j \in 1 .. i - 1 : str[j] # "]"

\* The number in what the launcher prints: the first character is discarded,
\* and no more is read than the longest number has digits.
ChosenNumber(output) ==
  LET str == SubSeq(output, 2, Shorter(Len(output), MaxStrlen + 1))
  IN  str_to_uint64(SubSeq(str, 1, Bracket(str) - 1))

-----------------------------------------------------------------------------
TextTypeOK ==
  /\ doc \in Documents /\ anchor \in 0 .. Len(doc)
  /\ sides \subseteq {"left", "right"}
  /\ last \in Seq(Chars) \union {NoText}
  /\ kept \in Seq(Seq(Chars))

(***************************************************************************)
(* "if you're selecting the text "abc", you get three clips [...] (or "c", *)
(* "bc", "abc" if selecting right to left) [...] It's possible we were not *)
(* fast enough to get all of them [...] It's also possible the user first  *)
(* expands, and then retracts the selection": a drag that stays on one     *)
(* side of where it began leaves one clip, the selection it ended with,    *)
(* whatever the document, and whichever of its steps were missed.          *)
(***************************************************************************)
OneClipPerDrag ==
  \A s \in {"left", "right"} : sides = {s} => kept = <<last>>

\* Where the lines of a text begin, and the first that is not empty does.
LineStarts(str) ==
  {i \in 1 .. Len(str) : i = 1 \/ str[i - 1] = NewLine}

FirstStart(str) == CHOOSE i \in LineStarts(str) :
  /\ str[i] # NewLine
  /\ \A j \in LineStarts(str) : j < i => str[j] = NewLine

IsShown(str) ==
  LET first == SubSeq(str, FirstStart(str), LineEnd(str, FirstStart(str)))
      line == Ellipsised(first_line(str).line)
  IN  /\ line # <<>> /\ NewLine \notin Range(line)
      /\ \/ line = first
         \/ /\ Len(first) >= LineSize - 1
            /\ line = SubSeq(first, 1, LineSize - 4) \o <<".", ".", ".">>
      /\ first_line(str).nr_lines = Cardinality(LineStarts(str))

(***************************************************************************)
(* What clipmenu shows of a clip is one line that is not empty (it aborts  *)
(* over one that is), of its first line that is not: all of it, or three   *)
(* dots after as much as there is room for.  The number of lines is that   *)
(* of the text, if there is more than one.                                 *)
(***************************************************************************)
ShownFaithfully == \A k \in DOMAIN kept : IsShown(kept[k])

\* The line of clip n of `total` begins with so many characters as any, and
\* the number in it is n.
LeadsBack(n, total, str) ==
  /\ ChosenNumber(Listed(n, total, str)) = n
  /\ Listed(n, total, str)[get_padding_length[total] + 2] = "]"

\* The largest number of k digits.
LargestOf[k \in Nat] == IF k = 0 THEN 0 ELSE 10 * LargestOf[k - 1] + 9

(***************************************************************************)
(* Every line that clipmenu writes leads back to the clip it was written   *)
(* for, whatever there is in its text (brackets and digits included), and  *)
(* the lines of all clips begin with numbers of one width.  This includes  *)
(* the largest number, with which nothing of the bracket is read.          *)
(***************************************************************************)
NumberReadBack ==
  \A k \in DOMAIN kept :
    \A n, total \in {1, 9, 10, LargestOf[MaxStrlen]} :
      n <= total => LeadsBack(n, total, kept[k])
=============================================================================
