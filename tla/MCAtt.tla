------------------------------- MODULE MCAtt -------------------------------
(* Instances of Att for TLC. *)
EXTENDS Att

\* Any PDU, those the server has no handler for included
AllPdus == Pdu

\* Only PDUs a handler or a pending op is there for: what a client sends, and
\* the answers, right or wrong, to requests and indications of ours
AnsweringPdus == Pdu \ {"UNKNOWN", "NOT", "IND"}
=============================================================================
