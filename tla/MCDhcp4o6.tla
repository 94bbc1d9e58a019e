----------------------------- MODULE MCDhcp4o6 -----------------------------
(* Small instances of Dhcp4o6 for TLC. *)
EXTENDS Dhcp4o6, TLC

CONSTANTS q1, q2, q3, q4

\* Two clients; q1 and q2 are a query and its retransmission, q3 another
\* client's query, all with a reply; q4 is a RELEASE, which gets none.
RetryXid == q1 :> 1 @@ q2 :> 1 @@ q3 :> 2 @@ q4 :> 2
RetryClient == q1 :> 1 @@ q2 :> 1 @@ q3 :> 2 @@ q4 :> 2
RetryAfter == q1 :> {} @@ q2 :> {} @@ q3 :> {} @@ q4 :> {q3}

\* q1 a DISCOVER, q2 its retransmission, q3 the REQUEST that follows the OFFER,
\* all in one transaction.
HandshakeXid == q1 :> 1 @@ q2 :> 1 @@ q3 :> 1
HandshakeClient == q1 :> 1 @@ q2 :> 1 @@ q3 :> 1
HandshakeAfter == q1 :> {} @@ q2 :> {} @@ q3 :> {q1, q2}

\* Clients with a transaction id of their own.
BurstXid == q1 :> 1 @@ q2 :> 2 @@ q3 :> 3 @@ q4 :> 4
BurstClient == BurstXid
BurstAfter == q1 :> {} @@ q2 :> {} @@ q3 :> {} @@ q4 :> {}

Burst3Xid == q1 :> 1 @@ q2 :> 2 @@ q3 :> 3
Burst3Client == Burst3Xid
Burst3After == q1 :> {} @@ q2 :> {} @@ q3 :> {}

\* A single query.
SingleXid == q1 :> 1
SingleClient == SingleXid
SingleAfter == q1 :> {}
=============================================================================
