---------------------------- MODULE MCMessaging ----------------------------
(* Small instances of Inbox and Messaging. *)
EXTENDS Messaging

CONSTANTS w1, r1

MCMessages == [name : Names, seq : 0..MaxSeq]
=============================================================================
