---------------------------- MODULE MailPromise ----------------------------
(***************************************************************************)
(* What the authentication side may rely on when it hands an e-mail to      *)
(* AuthEmailPort.sendAuthEmail, with no queue, worker or attempt in sight:   *)
(* the e-mail is dropped at once (and only logged), or it is promised; what  *)
(* is promised ends in the hands of the provider, is abandoned, or is lost   *)
(* with the Redis key it lived under.  Ends are final.                       *)
(***************************************************************************)
CONSTANT Mails

VARIABLE fate     \* fate[m]: how far e-mail m has come

Fates == {"unasked", "asked", "dropped", "promised", "handed", "abandoned", "lost"}

Moves ==
  {<<"unasked", "asked">>, <<"asked", "dropped">>, <<"asked", "promised">>,
   <<"promised", "handed">>, <<"promised", "abandoned">>, <<"promised", "lost">>}

Init == fate = [m \in Mails |-> "unasked"]

Move(m, to) ==
  /\ <<fate[m], to>> \in Moves
  /\ fate' = [fate EXCEPT ![m] = to]

Next == \E m \in Mails, to \in Fates : Move(m, to)

\* What was asked is answered for, and what was promised comes to an end.
Fairness ==
  \A m \in Mails : WF_fate(fate[m] # "unasked" /\ \E to \in Fates : Move(m, to))

Spec == Init /\ [][Next]_fate /\ Fairness
=============================================================================
