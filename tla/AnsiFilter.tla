------------------------------- MODULE AnsiFilter ------------------------------
(***************************************************************************)
(* What the guest writes to its console passes AnsiFilter on the way to    *)
(* the user's terminal (sandbox/console/filter.rs).  The guest's output is *)
(* read in chunks, cut anywhere; vte's parser, which is external, takes a  *)
(* chunk symbol by symbol, calls the performer, and keeps its state from   *)
(* one chunk to the next.  A symbol stands for a control, for a character  *)
(* of some kind, or for a number.  A character that takes several bytes is *)
(* one symbol too, but a read may end in the middle of it: vte keeps the   *)
(* bytes it has (partial) and the next read begins with the rest.  Outside *)
(* ground bytes of such characters are ignored one by one, and it makes no *)
(* difference where a read ends.                                           *)
(***************************************************************************)
EXTENDS Naturals, Sequences, FiniteSets

CONSTANTS
  Alphabets,          (* the guest keeps to the symbols of one of them       *)
  MarksMax,           (* COMBINING_MARKER_CONSECUTIVE_MAX                    *)
  MaxStringSequence,  (* MAX_STRING_SEQUENCE                                 *)
  MaxChunk,           (* bound: symbols of one read                          *)
  MaxText             (* bound: symbols the guest writes                     *)

C0 == {"NUL", "BEL", "LF"}
C1 == {"C1", "C1wide"}             \* one byte, and encoded in UTF-8
Wide == {"mark", "format", "hidden", "C1wide"}
NotAscii == Wide \cup C1
Intermediate == {" ", "$"}
Number == {"0", "3", "5", "16", "25", "65535"}
Private == {"?", ">"}
Separator == {":", ";"}
Parameter == Number \cup Separator
Final ==
  {"[", "]", "P", "_", "\\", "k", "x", "7", "h", "J", "m", "q", "p", "c", "n", "t", "~"}
Symbol == {"ESC", "CAN"} \cup C0 \cup NotAscii \cup Intermediate \cup Parameter
             \cup Private \cup Final

ASSUME AnsiFilterAssumption ==
  /\ \A a \in Alphabets : a \subseteq Symbol
  /\ {MarksMax, MaxStringSequence, MaxChunk, MaxText} \subseteq Nat

VARIABLES
  alphabet,    (* the symbols the guest writes                               *)
  text,        (* what it has written so far, as far as it is parsed         *)
  filter,      (* the parser's and the performer's state, and the output     *)
  taken,       (* symbols of the current read that are parsed                *)
  before,      (* length of the output when the read began                   *)
  length,      (* current_string_sequence_length                             *)
  partial,     (* None, or the character whose first bytes end the last read *)
  cut          (* history: where the text has a character cut by two reads   *)

filterVars == <<alphabet, text, filter, taken, before, length, partial, cut>>

None == "None"

(* out holds each symbol with the index of the text's symbol that caused it; *)
(* params is flat as vte's is, with the separators that write_csi puts back. *)
Fresh ==
  [state |-> "ground", inter |-> <<>>, ignore |-> FALSE, params |-> <<"0">>,
   title |-> FALSE, marks |-> 0, out |-> <<>>]

FilterInit ==
  /\ alphabet \in Alphabets
  /\ text = <<>> /\ filter = Fresh /\ taken = 0 /\ before = 0 /\ length = 0
  /\ partial = None /\ cut = {}

-------------------------------------------------------------------------------
(* FilterPerformer                                                           *)
Write(f, symbols, i) ==
  [f EXCEPT !.out = @ \o [n \in DOMAIN symbols |-> [symbol |-> symbols[n], at |-> i]]]

Printed(f, s, i) ==
  IF s # "mark" THEN Write([f EXCEPT !.marks = 0], <<s>>, i)
  ELSE LET g == [f EXCEPT !.marks = @ + 1] IN
       IF g.marks > MarksMax THEN g ELSE Write(g, <<s>>, i)

DroppedResets(f, s, i) ==          \* mutated form: any other character resets
  IF f.title THEN f
  ELSE IF s \in {"format", "hidden"} THEN [f EXCEPT !.marks = 0] ELSE Printed(f, s, i)
PrintChar(f, s, i) ==
  IF f.title \/ s \in {"format", "hidden"} THEN f ELSE Printed(f, s, i)

AnyControl == C0 \cup {"CAN"}      \* mutated form: a title has one line
EndsTitle == {"BEL", "CAN"}

Execute(f, s, i) ==
  LET g == [f EXCEPT !.title = @ /\ s \notin EndsTitle]
  IN IF s \in {"NUL"} \cup C1 THEN g ELSE Write(g, <<s>>, i)

(* The private marker goes first and the other intermediates last: vte takes *)
(* a marker only as the first of them.                                       *)
Marked(inter) == IF inter # <<>> /\ inter[1] \in Private THEN 1 ELSE 0
Markers(inter) == SubSeq(inter, 1, Marked(inter))
Trailing(inter) == SubSeq(inter, Marked(inter) + 1, Len(inter))

InOrderRead(f, action) ==          \* mutated form: intermediates first
  <<"ESC", "[">> \o f.inter \o f.params \o <<action>>
WriteCsi(f, action) ==
  <<"ESC", "[">> \o Markers(f.inter) \o f.params \o Trailing(f.inter) \o <<action>>

Modes(f) == {f.params[n] : n \in {m \in DOMAIN f.params : m = 1 \/ f.params[m - 1] = ";"}}
AllowedPrivateModes == {"25"}      \* of those the symbols can name
Flat(f) == {f.params[n] : n \in DOMAIN f.params} \ Separator

AllowedAlone(f, action) ==
  CASE action \in {"m", "P"} -> TRUE
    [] action = "c"          -> f.params = <<"0">>
    [] action = "n"          -> f.params = <<"5">>
    [] action = "t"          -> f.params = <<"16">>
    [] action = "~"          -> f.params[1] \in {"3", "5"}
    [] action = "J"          -> "3" \notin Flat(f)
    [] OTHER                 -> FALSE

AllowedCsi(f, action) ==
  \/ f.inter = <<>> /\ AllowedAlone(f, action)
  \/ f.inter = <<"?">> /\ action = "h" /\ Modes(f) \subseteq AllowedPrivateModes
  \/ f.inter = <<"?", "$">> /\ action = "p"
     /\ Modes(f) \subseteq AllowedPrivateModes
     /\ \A n \in DOMAIN f.params : f.params[n] # ":"
  \/ f.inter = <<">">> /\ action = "c" /\ f.params = <<"0">>
  \/ f.inter = <<" ">> /\ action = "q"

CsiDispatch(f, action, i) ==
  IF ~f.ignore /\ AllowedCsi(f, action) THEN Write(f, WriteCsi(f, action), i) ELSE f

EscDispatch(f, s, i) ==
  IF f.inter # <<>> THEN f
  ELSE CASE s = "k"  -> [f EXCEPT !.title = TRUE]
         [] s = "\\" -> [f EXCEPT !.title = FALSE]
         [] s = "7"  -> Write(f, <<"ESC", s>>, i)
         [] OTHER    -> f

-------------------------------------------------------------------------------
(* vte's parser                                                              *)
To(f, state) == [f EXCEPT !.state = state]
ResetParams(f) == [f EXCEPT !.inter = <<>>, !.ignore = FALSE, !.params = <<"0">>]

Collect(f, s) ==
  IF Len(f.inter) = 2 THEN [f EXCEPT !.ignore = TRUE] ELSE [f EXCEPT !.inter = Append(@, s)]

(* Digits make a number; one that nothing names stands for all the larger.   *)
AddParam(f, s) ==
  IF s \in Separator THEN [f EXCEPT !.params = @ \o <<s, "0">>]
  ELSE [f EXCEPT !.params[Len(f.params)] = IF @ = "0" THEN s ELSE "65535"]

InEscape(f, s, i) ==
  CASE s \in C0           -> Execute(f, s, i)
    [] s \in Intermediate -> To(Collect(f, s), "escapeIntermediate")
    [] s = "["            -> To(ResetParams(f), "csiEntry")
    [] s = "]"            -> To(f, "osc")
    [] s \in {"P", "_"}   -> To(f, "string")
    [] s \in NotAscii     -> f
    [] OTHER              -> EscDispatch(To(f, "ground"), s, i)

InEscapeIntermediate(f, s, i) ==
  CASE s \in C0           -> Execute(f, s, i)
    [] s \in Intermediate -> Collect(f, s)
    [] s \in NotAscii     -> f
    [] OTHER              -> EscDispatch(To(f, "ground"), s, i)

MoreCsi(f, s) ==
  IF f.state = "csiIgnore" THEN f
  ELSE CASE s \in Intermediate -> To(Collect(f, s), "csiIntermediate")
         [] s \in Private /\ f.state = "csiEntry" -> To(Collect(f, s), "csiParam")
         [] s \in Parameter /\ f.state # "csiIntermediate" -> To(AddParam(f, s), "csiParam")
         [] OTHER -> To(f, "csiIgnore")

InCsi(f, s, i) ==
  CASE s \in C0       -> Execute(f, s, i)
    [] s \in NotAscii -> f
    [] s \in Final    -> IF f.state = "csiIgnore" THEN To(f, "ground")
                         ELSE CsiDispatch(To(f, "ground"), s, i)
    [] OTHER          -> MoreCsi(f, s)

InGround(f, s, i) ==
  IF s \in C0 \cup C1 \cup {"CAN"} THEN Execute(f, s, i) ELSE PrintChar(f, s, i)

(* One symbol.  ESC starts over and CAN ends whatever there was, in strings  *)
(* too; BEL ends an OSC string and no other.                                 *)
Parsed(f, s, i) ==
  IF s = "ESC" THEN To(ResetParams(f), "escape")
  ELSE IF s = "CAN" THEN Execute(To(f, "ground"), s, i)
  ELSE CASE f.state = "ground"             -> InGround(f, s, i)
         [] f.state = "escape"             -> InEscape(f, s, i)
         [] f.state = "escapeIntermediate" -> InEscapeIntermediate(f, s, i)
         [] f.state = "osc"                -> IF s = "BEL" THEN To(f, "ground") ELSE f
         [] f.state = "string"             -> f
         [] OTHER                          -> InCsi(f, s, i)

-------------------------------------------------------------------------------
(* AnsiFilter::filter                                                        *)

(* The parser takes the next symbol of the read.                             *)
Advance ==
  /\ taken < MaxChunk /\ Len(text) < MaxText /\ partial = None
  /\ \E s \in alphabet :
       /\ text' = Append(text, s)
       /\ filter' = Parsed(filter, s, Len(text) + 1)
  /\ taken' = taken + 1
  /\ UNCHANGED <<alphabet, before, length, partial, cut>>

(* The read ends in the middle of a character: the parser waits for the rest.*)
CutRead ==
  /\ taken < MaxChunk /\ Len(text) < MaxText /\ partial = None
  /\ filter.state = "ground"
  /\ partial' \in alphabet \cap Wide
  /\ taken' = taken + 1
  /\ UNCHANGED <<alphabet, text, filter, before, length, cut>>

(* The next read begins with the rest of it.  What two reads put together    *)
(* the parser prints, a C1 control too, which it executes in any one read.   *)
Resume ==
  /\ partial # None /\ taken = 0 /\ taken < MaxChunk
  /\ text' = Append(text, partial)
  /\ filter' = PrintChar(filter, partial, Len(text) + 1)
  /\ cut' = cut \cup {Len(text) + 1}
  /\ partial' = None
  /\ taken' = taken + 1
  /\ UNCHANGED <<alphabet, before, length>>

Capped(n) == IF n > MaxStringSequence THEN MaxStringSequence ELSE n

LengthAfterRead == IF Len(filter.out) > before THEN 0 ELSE Capped(length + taken)

(* The limit is reached in a string: the code only forgets how long it is.   *)
ResetsParser(f, n) ==              \* mutated form
  IF n = MaxStringSequence THEN To(f, "ground") ELSE f
AtLimit(f, n) == f

(* The read ends with the symbol that was taken last.                        *)
EndRead ==
  /\ taken > 0
  /\ length' = LengthAfterRead
  /\ filter' = AtLimit(filter, LengthAfterRead)
  /\ taken' = 0
  /\ before' = Len(filter.out)
  /\ UNCHANGED <<alphabet, text, partial, cut>>

FilterNext == Advance \/ CutRead \/ Resume \/ EndRead

FilterSpec == FilterInit /\ [][FilterNext]_filterVars

-------------------------------------------------------------------------------
(* The text as a reader of the control sequences' definition sees it.       *)

(* What k begins, k is the first after an ESC that is no control by itself.  *)
AfterEsc(k) ==
  \E j \in 1..(k - 1) : /\ text[j] = "ESC"
                        /\ \A m \in (j + 1)..(k - 1) : text[m] \in C0 \cup NotAscii

Opens(k) == text[k] \in {"]", "P", "_"} /\ AfterEsc(k)
Closes(k, i) ==
  text[i] \in {"ESC", "CAN"} \/ (text[k] = "]" /\ text[i] = "BEL")

(* Is i in a string that began before it and has not ended by then?          *)
InString(i) ==
  \E k \in 1..(i - 1) : Opens(k) /\ \A m \in (k + 1)..i : ~Closes(k, m)

(* A BEL that ends an OSC string is not one of the text's.                   *)
EndsOsc(i) ==
  /\ text[i] = "BEL"
  /\ \E k \in 1..(i - 1) :
       /\ Opens(k) /\ text[k] = "]"
       /\ \A m \in (k + 1)..(i - 1) : ~Closes(k, m)

InTitle(i) ==
  \E k \in 1..(i - 1) :
    /\ text[k] = "k" /\ AfterEsc(k)
    /\ \A m \in (k + 1)..i :
         /\ text[m] # "CAN"
         /\ text[m] = "BEL" => InString(m) \/ EndsOsc(m)
         /\ ~(text[m] = "\\" /\ AfterEsc(m))

(* What print has let through: by itself in the output, in no sequence.  A   *)
(* C1 control that was cut is among it.                                      *)
Shown(n) ==
  /\ filter.out[n].symbol \notin C0 \cup {"CAN"}
  /\ \A m \in DOMAIN filter.out \ {n} : filter.out[m].at # filter.out[n].at

Symbols(out) == [n \in DOMAIN out |-> out[n].symbol]

(* Every variable has its type, and the counters keep to their limits.       *)
FilterTypeOK ==
  /\ text \in Seq(alphabet)
  /\ filter.state \in {"ground", "escape", "escapeIntermediate", "osc", "string", "csiEntry",
                       "csiParam", "csiIntermediate", "csiIgnore"}
  /\ Len(filter.inter) <= 2
  /\ \A n \in DOMAIN filter.out : filter.out[n].symbol \in Symbol
  /\ length \in 0..MaxStringSequence /\ taken \in 0..MaxChunk
  /\ partial \in Wide \cup {None} /\ cut \subseteq DOMAIN text

(* What the parser makes of symbols that come in one read.                   *)
AllAtOnce(symbols) ==
  LET state[n \in 0..Len(symbols)] ==
        IF n = 0 THEN Fresh ELSE Parsed(state[n - 1], symbols[n], n)
  IN state[Len(symbols)]

(* The C1 controls in the output.                                            *)
ControlsOut == {n \in DOMAIN filter.out : filter.out[n].symbol \in C1}

(* Where the reads cut the guest's output, in the middle of a character, of  *)
(* a sequence, of a title or of a string longer than the filter wants to     *)
(* remember, makes no difference to what the terminal gets, but for one      *)
(* case: a C1 control encoded in UTF-8 comes out when two reads share it,    *)
(* and nothing but such a control does.                                      *)
ChunksDoNotMatter ==
  /\ \A n \in ControlsOut : filter.out[n].at \in cut
  /\ ControlsOut = {} => filter = AllAtOnce(text)

(* The tests' sentence, without the exception: the filter is not fooled by   *)
(* chunk boundaries.                                                         *)
BoundariesDoNotFool == filter = AllAtOnce(text)

(* Nothing the guest puts into a string (clipboard, window title, device     *)
(* control) or a screen title is shown, and no control in it takes effect.   *)
StringsAreSwallowed ==
  \A n \in DOMAIN filter.out :
    LET i == filter.out[n].at IN
    /\ ~InString(i)
    /\ Shown(n) => ~InTitle(i)

(* The terminal, which parses what the filter has written once more, finds   *)
(* exactly what the filter let through: filtering it again changes nothing.  *)
(* A sequence put together from the rest of removed ones would be found here.*)
(* The exception is a C1 control that two reads share, as above.             *)
FilterIsIdempotent ==
  LET out == Symbols(filter.out)
  IN ControlsOut = {} => Symbols(AllAtOnce(out).out) = out

(* Nothing that is printed is buried under combining marks, whatever         *)
(* controls, sequences and invisible characters the guest puts between them. *)
MarksAreFew ==
  \A n, m \in DOMAIN filter.out :
    LET marks == {k \in n..m : filter.out[k].symbol = "mark"} IN
    Cardinality(marks) > MarksMax => \E k \in (n..m) \ marks : Shown(k)
===============================================================================
