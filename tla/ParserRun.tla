----------------------------- MODULE ParserRun -----------------------------
(***************************************************************************)
(* The parser of the target (bmv2), given the states that gen_json writes: *)
(* a set of records                                                        *)
(*   name                                                                  *)
(*   extract   the header the state extracts, or NoHeader                  *)
(*   on        whether it selects on the type field of the last header     *)
(*   to        its branches: a sequence of <<case, name>>; a case is a set *)
(*             of values (more than one for a mask) or Default             *)
(* Names are tuples.  Control functions and tables are all EndOfParser:    *)
(* gen_json writes none.  The headers of a frame are its sequence of type  *)
(* fields.                                                                 *)
(***************************************************************************)
EXTENDS Naturals, Sequences

CONSTANT Frames

Default == {}
NoHeader == "none"
NoType == "no type"
EndOfParser == <<"ingress">>
Start == <<"start">>

VARIABLES
  parser,  \* the states
  frame,   \* the frame that is parsed, <<>> between two of them
  at,      \* the name of the state that is next
  key,     \* the type field extracted last
  got,     \* the headers extracted
  rest     \* what is left of the frame

runVars == <<parser, frame, at, key, got, rest>>

\* The branch a state takes for a key: the first case that matches, or the
\* default, or the end.
Chosen(s, k) ==
  LET hits == {i \in DOMAIN s.to : s.on /\ k \in s.to[i][1]}
      dflt == {i \in DOMAIN s.to : s.to[i][1] = Default}
  IN IF hits # {} THEN s.to[CHOOSE i \in hits : \A j \in hits : i <= j][2]
     ELSE IF dflt # {} THEN s.to[CHOOSE i \in dflt : TRUE][2] ELSE EndOfParser

Idle == frame = <<>> /\ at = EndOfParser /\ key = NoType /\ got = <<>> /\ rest = <<>>

Arrive ==
  /\ frame = <<>>
  /\ frame' \in Frames /\ rest' = frame'
  /\ at' = Start /\ key' = NoType /\ got' = <<>>
  /\ UNCHANGED parser

\* Names are looked up; two states of one name could each be meant.
ParseState ==
  /\ at # EndOfParser
  /\ \E s \in parser :
       /\ s.name = at
       /\ IF s.extract = NoHeader
          THEN at' = Chosen(s, key) /\ UNCHANGED <<key, got, rest>>
          ELSE /\ rest # <<>>
               /\ key' = Head(rest) /\ rest' = Tail(rest)
               /\ got' = Append(got, s.extract)
               /\ at' = Chosen(s, key')
  /\ UNCHANGED <<parser, frame>>

Leave ==
  /\ frame # <<>> /\ at = EndOfParser
  /\ frame' = <<>> /\ key' = NoType /\ got' = <<>> /\ rest' = <<>>
  /\ UNCHANGED <<parser, at>>

\* One frame after the other.
Parses == Idle /\ [][Arrive \/ ParseState \/ Leave]_runVars
=============================================================================
