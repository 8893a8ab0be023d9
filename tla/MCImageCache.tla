---------------------------- MODULE MCImageCache ----------------------------
(* Two processes of different versions and two images; one entry is larger. *)
EXTENDS ImageCache

Two == [t \in Threads |-> t]
Own == [p \in Processes |-> p]
Sizes == [e \in Digests \X Versions |-> IF e[1] = "a" /\ e[2] = "p" THEN 2 ELSE 1]
=============================================================================
