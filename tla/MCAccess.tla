------------------------------ MODULE MCAccess ------------------------------
(* The two features of a media provider and a beta feature of its own.     *)
EXTENDS Access
CONSTANTS video, post, beta
Media == [channel |-> "standard", scopes |-> Chats, triggers |-> {"direct", "automatic"},
          needs |-> FALSE, family |-> "media"]
Registry == [f \in {video, post, beta} |->
  IF f = beta THEN [Media EXCEPT !.channel = "beta", !.needs = TRUE, !.family = "other"] ELSE Media]
(* Every feature is on at first, and what a change turns off is off.       *)
MCInit == AccessInit /\ switches.on = [c \in Chats |-> Features]
MCSpec == MCInit /\ [][AccessNext]_accessVars
VideoAndPost == <<video, post>>
=============================================================================
