------------------------------- MODULE Parser -------------------------------
(***************************************************************************)
(* protocol/parser.cpp: a frame is taken apart into lines, a line into the *)
(* type and the arguments of a message, an ident into side, slot and name. *)
(*                                                                         *)
(* Text is a sequence of characters, since the code is about characters.   *)
(* split() is a function of the text; parse_message() is a loop over the   *)
(* lines, one step a line.                                                 *)
(***************************************************************************)
EXTENDS Naturals, FiniteSets, Sequences, SequencesExt

CONSTANTS
  NL, CR,       \* line feed and carriage return
  TextChars,    \* the characters of the frames that are parsed ...
  MaxText,      \* ... and their greatest length
  IdentChars,   \* the same of the idents
  MaxIdent

ASSUME ParserAssumption == MaxText \in Nat /\ MaxIdent \in Nat

VARIABLES
  raw,            \* the frame
  lines,          \* its lines not yet looked at
  current_room,
  msgs,
  ident           \* an ident, for parse_ident()

vars == <<raw, lines, current_room, msgs, ident>>

-----------------------------------------------------------------------------
(* split() *)

(* A carriage return at the end of a token is removed, one at most. *)
Chomp(token) ==
  IF token # <<>> /\ Last(token) = CR THEN Front(token) ELSE token

(* s.find(delim, start): a position, or 0 *)
FindFrom(s, delim, start) ==
  LET at == {i \in start .. Len(s) : s[i] = delim}
  IN  IF at = {} THEN 0 ELSE CHOOSE i \in at : \A j \in at : i <= j

Split(s, delim) ==
  LET tokens[start \in 1 .. Len(s) + 1] ==
        LET end == FindFrom(s, delim, start)
        IN  IF end = 0 THEN <<Chomp(SubSeq(s, start, Len(s)))>>
            ELSE <<Chomp(SubSeq(s, start, end - 1))>> \o tokens[end + 1]
  IN  tokens[1]

-----------------------------------------------------------------------------
(* parse_ident() *)

NoIdent == [slot |-> "none", side |-> <<>>, name |-> <<>>]

(* Mutant: the name begins after the last colon. *)
ParseIdentLastColon(id) ==
  LET colons == {i \in 1 .. Len(id) : id[i] = ":"}
      pos    == IF colons = {} THEN 0 ELSE CHOOSE i \in colons : \A j \in colons : j <= i
      begin  == {i \in pos + 1 .. Len(id) : id[i] # " "}
      start  == CHOOSE i \in begin : \A j \in begin : i <= j
  IN  IF pos - 1 \notin {2, 3} \/ begin = {} THEN NoIdent
      ELSE [slot |-> IF pos = 4 THEN id[3] ELSE "none",
            side |-> SubSeq(id, 1, 2), name |-> SubSeq(id, start, Len(id))]

(* The side is two characters, the slot a third if there is one; all else  *)
(* before the first colon, or nothing behind it, is no ident.  (The slot   *)
(* of NoIdent is not initialized, and nobody reads it.)                    *)
ParseIdent(id) ==
  LET pos   == FindFrom(id, ":", 1)
      begin == {i \in pos + 1 .. Len(id) : id[i] # " "}
      start == CHOOSE i \in begin : \A j \in begin : i <= j
  IN  IF pos - 1 \notin {2, 3} \/ begin = {} THEN NoIdent
      ELSE [slot |-> IF pos = 4 THEN id[3] ELSE "none",
            side |-> SubSeq(id, 1, 2), name |-> SubSeq(id, start, Len(id))]

-----------------------------------------------------------------------------
(* parse_message() *)

Texts(chars, max) == UNION {[1 .. n -> chars] : n \in 0 .. max}

Init ==
  /\ \/ raw \in Texts(TextChars, MaxText) /\ ident = <<>>
     \/ raw = <<>> /\ ident \in Texts(IdentChars, MaxIdent)
  /\ lines = IF raw = <<>> THEN <<>> ELSE Split(raw, NL)
  /\ current_room = <<>> /\ msgs = <<>>

(* line[0], if there is one *)
First(line) == IF line = <<>> THEN "none" ELSE line[1]

TakeLine ==
  /\ lines # <<>>
  /\ lines' = Tail(lines)
  /\ UNCHANGED <<raw, ident>>

(* Mutant: the first room named stays. *)
RoomLineFirst ==
  /\ TakeLine
  /\ First(Head(lines)) = ">"
  /\ current_room' = IF current_room = <<>> THEN Tail(Head(lines)) ELSE current_room
  /\ UNCHANGED msgs

RoomLine ==
  /\ TakeLine
  /\ First(Head(lines)) = ">"
  /\ current_room' = Tail(Head(lines))
  /\ UNCHANGED msgs

MessageLine ==
  /\ TakeLine
  /\ First(Head(lines)) = "|"
  /\ LET tokens == Split(Tail(Head(lines)), "|")
     IN  msgs' = Append(msgs, [room_id |-> current_room, type |-> Head(tokens),
                               args |-> Tail(tokens)])
  /\ UNCHANGED current_room

(* Empty lines and chat are passed over. *)
OtherLine ==
  /\ TakeLine
  /\ First(Head(lines)) \notin {">", "|"}
  /\ UNCHANGED <<current_room, msgs>>

Parsed == lines = <<>> /\ UNCHANGED vars

Next == RoomLine \/ MessageLine \/ OtherLine \/ Parsed

Spec == Init /\ [][Next]_vars

-----------------------------------------------------------------------------
(* Reference definitions, by position and not by scanning. *)

(* The tokens of s: the k-th is what lies between the delimiters number    *)
(* k - 1 and k, the ends of s counting as such.                            *)
Cuts(s, delim)  == {0, Len(s) + 1} \cup {i \in 1 .. Len(s) : s[i] = delim}
Cut(s, delim, k) ==
  CHOOSE c \in Cuts(s, delim) : Cardinality({d \in Cuts(s, delim) : d < c}) = k
Tokens(s, delim) ==
  [k \in 1 .. Cardinality(Cuts(s, delim)) - 1 |->
     Chomp(SubSeq(s, Cut(s, delim, k - 1) + 1, Cut(s, delim, k) - 1))]

(* The lines of the frame that begin with c, by their numbers *)
LinesWith(c) ==
  {k \in 1 .. Len(Tokens(raw, NL)) : First(Tokens(raw, NL)[k]) = c}

(* The room a line is in: the last one named above it *)
RoomOf(k) ==
  LET above == {i \in LinesWith(">") : i < k}
  IN  IF above = {} THEN <<>>
      ELSE Tail(Tokens(raw, NL)[CHOOSE i \in above : \A j \in above : j <= i])

MessageOf(k) ==
  LET fields == Tokens(Tail(Tokens(raw, NL)[k]), "|")
  IN  [room_id |-> RoomOf(k), type |-> fields[1], args |-> Tail(fields)]

(* A frame becomes one message for each line with a bar in front, in this  *)
(* order, each in the room named last above it; empty fields, empty rooms, *)
(* carriage returns and lines without an end included.                     *)
FramesParseAsLines ==
  lines = <<>> =>
    /\ Len(msgs) = Cardinality(LinesWith("|"))
    /\ \A k \in LinesWith("|") :
         msgs[Cardinality({i \in LinesWith("|") : i <= k})] = MessageOf(k)

(* Names may hold colons ("Type: Null") and spaces: whatever the name, the *)
(* ident of side s and slot t is read back as what it was written from,    *)
(* up to spaces in front of the name.                                      *)
IdentsReadBack ==
  \A p \in 2 .. Len(ident) - 1 :
    LET before == SubSeq(ident, 1, p)
        name   == SubSeq(ident, p + 2, Len(ident))
    IN  /\ p \in {2, 3} /\ ident[p + 1] = ":" /\ ":" \notin ToSet(before)
        /\ First(name) \notin {"none", " "}
        => /\ ParseIdent(ident) = [slot |-> IF p = 3 THEN before[3] ELSE "none",
                                   side |-> SubSeq(before, 1, 2), name |-> name]
           /\ ParseIdent(before \o <<":", " ">> \o name) = ParseIdent(ident)

=============================================================================
