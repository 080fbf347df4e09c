------------------------------ MODULE MCSettings ------------------------------
(* One user with a private chat and a group, two handlers at work.         *)
EXTENDS Settings, TLC
CONSTANTS a, g, h1, h2
OneUser == {a}
TwoCalls == {h1, h2}
(* Windows and confirmations meet only in their handlers.  At first either *)
(* a confirmation is over and the windows are still to be opened, or the   *)
(* windows are over and their user may confirm a change; the change left   *)
(* takes the role away, or the identity.                                   *)
Gone == [chat |-> g, left |-> None, there |-> FALSE, givenUp |-> FALSE]
Past == [user |-> a, gen |-> 1, target |-> 1, left |-> None, done |-> 0]
MCInit ==
  /\ \E admin \in BOOLEAN :
       /\ people = [admins |-> IF admin THEN Users ELSE {}, locals |-> IF admin THEN {} ELSE Users,
                    gen |-> [u \in Users |-> 1], group |-> 1]
       /\ window = IF admin THEN [w \in 1..MaxWindows |-> Gone] ELSE << >>
       /\ confirm = IF admin THEN << >> ELSE <<Past>>
  /\ token = << >> /\ call = [h \in Calls |-> Idle] /\ changes = 0
  /\ cache = [kept |-> {}, current |-> [c \in Chats |-> 0], confirms |-> {}]
  /\ cleanup = [index |-> << >>, single |-> [c \in Chats |-> 0], swept |-> {}]
MCSpec == MCInit /\ [][Next]_vars
Same == Permutations(TwoCalls)
=============================================================================
