------------------------- MODULE IdempotencyIntent -------------------------
(***************************************************************************)
(* The browser's memory of a command whose outcome it does not know: the   *)
(* signature of the command, the Idempotency-Key it was sent under and the *)
(* attempt that may still settle it.  Signatures are tuples, keys and      *)
(* attempts positive numbers; a new key is the number of its attempt.      *)
(***************************************************************************)
EXTENDS Naturals

NoIntent == [signature |-> <<>>, key |-> 0, attempt |-> 0]

\* An unchanged signature keeps its key; the new attempt is the one to settle.
Begin(intent, signature, attempt) ==
    [signature |-> signature,
     key |-> IF intent.signature = signature THEN intent.key ELSE attempt,
     attempt |-> attempt]

\* Faulty: any attempt settles the intent, the current one or an older one.
SettleAny(intent, attempt, retain) ==
    IF retain THEN [intent EXCEPT !.attempt = 0] ELSE NoIntent

\* Only the current attempt settles: it retains the key or consumes it.
Settle(intent, attempt, retain) ==
    IF intent.attempt # attempt THEN intent
    ELSE IF retain THEN [intent EXCEPT !.attempt = 0]
    ELSE NoIntent

=============================================================================
