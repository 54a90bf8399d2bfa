------------------------------ MODULE MediaToken ------------------------------
(***************************************************************************)
(* MediaTokenSigner: a URL's query carries the time its token expires at   *)
(* and an HMAC of that and of the id it is for.  An HMAC is the record of  *)
(* what it was computed over; the secret is the servers' own.              *)
(***************************************************************************)
EXTENDS Integers, Sequences

CONSTANTS
  Signing, \* whether a secret is set
  TTL,     \* default_ttl_
  NoToken  \* the empty query

ASSUME TTLAssumption == TTL \in Nat \ {0}
ASSUME NoTokenAssumption == NoToken \notin [expires : Nat, sig : [id : Seq(Nat), expires : Nat]]

VARIABLE clock \* system_clock_now, the same for both servers

Hmac(id, expires) == [id |-> id, expires |-> expires]

Sign(id) ==
  IF Signing THEN [expires |-> clock + TTL, sig |-> Hmac(id, clock + TTL)] ELSE NoToken

\* A token is good for the id it was made for until the clock reaches expires.
Verify(id, token) ==
  \/ ~ Signing
  \/ /\ token # NoToken
     /\ clock < token.expires
     /\ token.sig = Hmac(id, token.expires)
=============================================================================
