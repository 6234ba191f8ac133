---------------------------- MODULE RegisterBus ----------------------------
(***************************************************************************)
(* What the rest of the program takes a register operation for.  A write   *)
(* has reached the board when it returns, and it may or may not have when  *)
(* it throws; once it is over the board takes nothing more of it.  A read  *)
(* that returns gives what the registers hold.  Each operation, of one     *)
(* register or of a row of them, with or without a mask, is one step.      *)
(***************************************************************************)
EXTENDS Naturals, Sequences

CONSTANTS Memories,     \* the contents registers can have
          Requests, NoRequest, NoAnswer

VARIABLES mem,        \* the registers on the board
          request,    \* the operation under way, or NoRequest
          taken,      \* the board has carried it out
          answer      \* what the last read returned

vars == <<mem, request, taken, answer>>

\* Bits that are low in the mask are kept by a write, and read as zeros.
\* Registers are sets of bits, rows of them are numbered on from r.at.
Written(m, r) ==
  [a \in DOMAIN m |->
     IF a - r.at + 1 \in DOMAIN r.vals
       THEN (m[a] \ r.mask) \cup (r.vals[a - r.at + 1] \cap r.mask)
       ELSE m[a]]

Contents(m, r) == [i \in 1..r.reads |-> m[r.at + i - 1] \cap r.mask]

Init == /\ mem \in Memories
        /\ request = NoRequest
        /\ taken = FALSE
        /\ answer = NoAnswer

Begin(r) == /\ request = NoRequest
            /\ request' = r
            /\ taken' = FALSE
            /\ answer' = NoAnswer
            /\ UNCHANGED mem

Take == /\ request # NoRequest
        /\ taken' = TRUE
        /\ mem' = Written(mem, request)
        /\ UNCHANGED <<request, answer>>

Return == /\ request # NoRequest
          /\ taken
          /\ answer' = IF request.reads > 0 THEN Contents(mem, request)
                                            ELSE NoAnswer
          /\ request' = NoRequest
          /\ UNCHANGED <<mem, taken>>

Throw == /\ request # NoRequest
         /\ request' = NoRequest
         /\ UNCHANGED <<mem, taken, answer>>

Next == \/ \E r \in Requests : Begin(r)
        \/ Take \/ Return \/ Throw

Spec == Init /\ [][Next]_vars
=============================================================================
