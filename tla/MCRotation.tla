---------------------------- MODULE MCRotation ----------------------------
(* Rotation with the constants of the code. *)
EXTENDS Rotation

\* ttl_secs() drops the fraction of a second; expires_at is computed up to a
\* second after not_after.
SecondOfDrift == {-1, 0, 1}

\* The same, or a host whose clock is ahead by more than the certificate's life:
\* ttl_secs() is 0.
ClockAhead == SecondOfDrift \cup {-301}

=============================================================================
