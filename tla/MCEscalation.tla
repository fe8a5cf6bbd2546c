---------------------------- MODULE MCEscalation ----------------------------
(* TLC instances of Escalation: a chain A -> B -> C, and a second          *)
(* configuration in which B is disabled and A escalates to C.              *)
EXTENDS Escalation, TLC

CONSTANTS setA, setB, setC, w1, w2, k1, k2

Chain ==
  [base |-> setA, on |-> {setA, setB, setC}, ibd |-> {},
   to |-> (setA :> setB @@ setB :> setC @@ setC :> None)]
Shorter ==
  [base |-> setA, on |-> {setA, setC}, ibd |-> {},
   to |-> (setA :> setC @@ setB :> None @@ setC :> None)]

WithIbd    == [Chain EXCEPT !.ibd = {setC}]
OneConfig  == <<WithIbd>>
IbdThenShorter == <<WithIbd, Shorter>>

Spread   == (k1 :> w1 @@ k2 :> w2)   \* two destinations, two workers
Single   == (k1 :> w1)

=============================================================================
