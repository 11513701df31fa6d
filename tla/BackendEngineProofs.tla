-------------------------- MODULE BackendEngineProofs --------------------------
(***************************************************************************)
(* Machine-checked proofs about BackendEngine, for any number of calls,    *)
(* rotations of the secret and lengths of a pause, with and without        *)
(* failures.                                                               *)
(***************************************************************************)
EXTENDS BackendEngine, TLAPS

CallStates ==
    [at : {"new", "registering", "renewing", "send", "sent", "reading", "done"}, stream : BOOLEAN,
     cred : Nat, retried : BOOLEAN, aborted : BOOLEAN,
     result : {"none", "answer", "empty", "quota", "offline"}]

TypeOK ==
    /\ epoch \in Nat \ {0} /\ revoked \in BOOLEAN /\ token \in Nat
    /\ reg \in [at : {"idle", "asked", "reading", "storing"}, owner : Calls \cup {Nobody}, got : Nat]
    /\ renew \in {"idle", "reset", "ensure", "registering", "linking", "reading"}
    /\ call \in [Calls -> CallStates]
    /\ wait \in 0..MaxWait
    /\ calm \in SUBSET Calls

-----------------------------------------------------------------------------
(* The inductive invariant.                                                *)

\* Nobody registers while a token is stored, nothing is renewed for nobody, a call that
\* has not begun has done nothing, and one with a result is over.
NothingInVain ==
    /\ reg.at # "idle" => token = 0
    /\ renew # "idle" => \E k \in Calls : call[k].at = "renewing"
    /\ \A k \in Calls : call[k].at = "new" => call[k].cred = 0 /\ ~call[k].retried /\ ~call[k].aborted
    /\ \A k \in Calls : call[k].result # "none" => call[k].at = "done"

\* A call of the batch that was answered, or will be if nothing goes wrong any more:
\* its 401 can be repaired, or it has a valid token, or will read one.
Hopeful(k) ==
    \/ call[k].result = "answer" \/ call[k].at \in {"renewing", "reading"}
    \/ InFlight(k) /\ ~call[k].retried
    \/ call[k].at = "sent" /\ call[k].cred = epoch
    \/ call[k].at = "send" /\ token = epoch /\ renew = "idle"

\* A renewal never passes its steps with a token of an older secret.
Renewing ==
    /\ reg.at \in {"reading", "storing"} => reg.got = epoch
    /\ renew \in {"ensure", "registering"} => token \in {0, epoch}
    /\ renew \in {"linking", "reading"} => token = epoch

\* The calls of a batch are those in flight, undisturbed; an accepted answer and a
\* repaired refusal leave the token of the moment behind them.
Undisturbed ==
    /\ wait = 0
    /\ \A k \in Calls : InFlight(k) => k \in calm
    /\ \A k \in calm : call[k].at # "new" /\ ~call[k].aborted
    /\ \A k \in calm : call[k].result = "answer" \/ call[k].at = "reading" => call[k].cred = epoch
    /\ \A k \in calm : call[k].cred = epoch \/ call[k].retried => renew # "idle" \/ token = epoch

Batch == calm # {} /\ ~revoked => Renewing /\ Undisturbed /\ \E k \in calm : Hopeful(k)

IInv == TypeOK /\ NoLostWaiter /\ NothingInVain /\ Batch

-----------------------------------------------------------------------------
(* Errors and updates of a call.                                           *)

Errors == {"unauthorized", "cancelled", "account", "limited", "timeout", "unavailable"}

\* An error ends a call, or sends it to the renewal.
LEMMA FailedCall ==
  ASSUME NEW c \in CallStates, NEW error \in Errors
  PROVE  /\ Failed(c, error) \in CallStates
         /\ Failed(c, error).cred = c.cred /\ Failed(c, error).retried = c.retried
         /\ Failed(c, error).aborted = c.aborted
         /\ \/ Failed(c, error).at = "done" /\ Failed(c, error).result \in {"empty", "quota", "offline"}
            \/ /\ error = "unauthorized" /\ ~c.aborted /\ ~c.retried
               /\ Failed(c, error).at = "renewing" /\ Failed(c, error).result = c.result
         /\ error = "unauthorized" /\ ~c.aborted /\ ~c.retried => Failed(c, error).at = "renewing"
<1>1. CASE error = "unauthorized" /\ ~c.aborted /\ ~c.retried
  BY <1>1 DEF Failed, Unauthorized, Renews, CallStates
<1>2. CASE error = "unauthorized" /\ (c.aborted \/ c.retried)
  BY <1>2 DEF Failed, Unauthorized, Renews, Answer, CallStates
<1>3. CASE error # "unauthorized"
  <2> DEFINE result == CASE c.aborted \/ c.retried \/ error \in {"cancelled", "account"} -> "empty"
                         [] ~c.aborted /\ ~c.retried /\ error = "limited" -> "quota"
                         [] OTHER -> "offline"
  <2>1. result \in {"empty", "quota", "offline"}
    BY DEF Errors
  <2> HIDE DEF result
  <2>2. Failed(c, error) = [c EXCEPT !.at = "done", !.result = result]
    BY <1>3 DEF Failed, Answer, result
  <2>3. QED
    BY <1>3, <2>1, <2>2 DEF CallStates
<1>4. QED
  BY <1>1, <1>2, <1>3

\* The renewal begins with the first call that waits for it.
LEMMA UpdateCall ==
  ASSUME TypeOK, NoLostWaiter, NEW k \in Calls, NEW c \in CallStates, Update(k, c)
  PROVE  /\ call' \in [Calls -> CallStates]
         /\ call'[k] = c /\ \A j \in Calls : j # k => call'[j] = call[j]
         /\ renew' \in {"idle", "reset", "ensure", "registering", "linking", "reading"}
         /\ renew # "idle" => renew' = renew
         /\ renew = "idle" => renew' = IF c.at = "renewing" THEN "reset" ELSE "idle"
<1>1. call' = [call EXCEPT ![k] = c] /\ call \in [Calls -> CallStates]
  BY DEF Update, TypeOK
<1>2. /\ call' \in [Calls -> CallStates]
      /\ call'[k] = c /\ \A j \in Calls : j # k => call'[j] = call[j]
  BY <1>1
<1>3. renew = "idle" => \A j \in Calls : j # k => call'[j].at # "renewing"
  BY <1>2 DEF NoLostWaiter
<1>4. renew' = IF renew = "idle" /\ \E j \in Calls : call'[j].at = "renewing" THEN "reset" ELSE renew
  BY DEF Update, RenewFor
<1>5. QED
  BY <1>2, <1>3, <1>4 DEF TypeOK

\* Nobody is lost by an update.
LEMMA UpdateWaiters ==
  ASSUME TypeOK, NoLostWaiter, NothingInVain, NEW k \in Calls, NEW c \in CallStates, Update(k, c),
         c.at = "registering" \/ reg.at # "idle" => reg'.at # "idle",
         reg'.at # "idle" => token' = 0,
         call[k].at = "renewing" => c.at = "renewing",
         c.at = "new" => call[k].at = "new" /\ c = call[k],
         c.result # "none" => c.at = "done"
  PROVE  NoLostWaiter' /\ NothingInVain'
<1>1. /\ call'[k] = c /\ \A j \in Calls : j # k => call'[j] = call[j]
      /\ renew # "idle" => renew' = renew
      /\ renew = "idle" => renew' = IF c.at = "renewing" THEN "reset" ELSE "idle"
  BY UpdateCall
<1>2. NoLostWaiter'
  <2>1. ASSUME NEW j \in Calls, call'[j].at = "registering"
        PROVE  reg'.at # "idle"
    BY <1>1, <2>1 DEF NoLostWaiter
  <2>2. ASSUME NEW j \in Calls, call'[j].at = "renewing"
        PROVE  renew' # "idle"
    BY <1>1, <2>2 DEF NoLostWaiter
  <2>3. renew' = "registering" => reg'.at # "idle"
    BY <1>1 DEF NoLostWaiter
  <2>4. QED
    BY <2>1, <2>2, <2>3 DEF NoLostWaiter
<1>3. NothingInVain'
  <2>1. renew' # "idle" => \E j \in Calls : call'[j].at = "renewing"
    <3>1. CASE renew = "idle"
      BY <1>1, <3>1
    <3>2. CASE renew # "idle"
      <4>1. PICK j \in Calls : call[j].at = "renewing"
        BY <3>2 DEF NothingInVain
      <4>2. call'[j].at = "renewing"
        BY <1>1, <4>1
      <4>3. QED
        BY <4>2
    <3>3. QED
      BY <3>1, <3>2
  <2>2. \A j \in Calls : call'[j].at = "new" => call'[j].cred = 0 /\ ~call'[j].retried /\ ~call'[j].aborted
    BY <1>1 DEF NothingInVain
  <2>3. \A j \in Calls : call'[j].result # "none" => call'[j].at = "done"
    BY <1>1 DEF NothingInVain
  <2>4. QED
    BY <2>1, <2>2, <2>3 DEF NothingInVain
<1>4. QED
  BY <1>2, <1>3

\* What a call in flight does alone keeps the hope of its batch, if it keeps its own.
LEMMA UpdateBatch ==
  ASSUME IInv, NEW k \in Calls, NEW c \in CallStates, Update(k, c),
         UNCHANGED <<epoch, revoked, token, reg, wait, calm>>,
         InFlight(k), c.at # "new", c.aborted = call[k].aborted, c.retried = call[k].retried,
         calm # {} /\ ~revoked /\ (c.result = "answer" \/ c.at = "reading") => c.cred = epoch,
         calm # {} /\ ~revoked /\ c.cred = epoch => call[k].cred = epoch \/ token = epoch,
         calm # {} /\ ~revoked /\ k \in calm /\ Hopeful(k) => Hopeful(k)'
  PROVE  Batch'
<1> SUFFICES ASSUME calm' # {}, ~revoked'
             PROVE  Renewing' /\ Undisturbed' /\ \E j \in calm' : Hopeful(j)'
  BY DEF Batch
<1>1. /\ call'[k] = c /\ \A j \in Calls : j # k => call'[j] = call[j]
      /\ renew # "idle" => renew' = renew
      /\ renew = "idle" => renew' = IF c.at = "renewing" THEN "reset" ELSE "idle"
  BY UpdateCall DEF IInv
<1>2. calm # {} /\ ~revoked /\ Renewing /\ Undisturbed /\ calm \in SUBSET Calls
  BY DEF IInv, Batch, TypeOK
<1>3. PICK h \in calm : Hopeful(h)
  BY <1>2 DEF IInv, Batch
<1>4. Renewing'
  BY <1>1, <1>2 DEF Renewing
<1>5. Undisturbed'
  <2>1. wait' = 0
    BY <1>2 DEF Undisturbed
  <2>2. \A j \in Calls : InFlight(j)' => j \in calm'
    BY <1>1, <1>2 DEF Undisturbed, InFlight
  <2>3. \A j \in calm' : call'[j].at # "new" /\ ~call'[j].aborted
    BY <1>1, <1>2 DEF Undisturbed
  <2>4. \A j \in calm' : call'[j].result = "answer" \/ call'[j].at = "reading" => call'[j].cred = epoch'
    BY <1>1, <1>2 DEF Undisturbed
  <2>5. \A j \in calm' : call'[j].cred = epoch' \/ call'[j].retried => renew' # "idle" \/ token' = epoch'
    <3>1. k \in calm
      BY <1>2 DEF Undisturbed
    <3>2. QED
      BY <1>1, <1>2, <3>1 DEF Undisturbed
  <2>6. QED
    BY <2>1, <2>2, <2>3, <2>4, <2>5 DEF Undisturbed
<1>6. \E j \in calm' : Hopeful(j)'
  <2>1. CASE c.at = "renewing"
    <3>1. k \in calm'
      BY <1>2 DEF Undisturbed
    <3>2. Hopeful(k)'
      BY <1>1, <2>1 DEF Hopeful
    <3>3. QED
      BY <3>1, <3>2
  <2>2. CASE c.at # "renewing"
    <3>1. CASE h = k
      BY <1>2, <1>3, <3>1
    <3>2. CASE h # k
      <4>1. call'[h] = call[h] /\ renew' = renew
        BY <1>1, <1>2, <2>2, <3>2
      <4>2. Hopeful(h)'
        BY <1>3, <4>1 DEF Hopeful, InFlight
      <4>3. QED
        BY <4>2
    <3>3. QED
      BY <3>1, <3>2
  <2>3. QED
    BY <2>1, <2>2
<1>7. QED
  BY <1>4, <1>5, <1>6

-----------------------------------------------------------------------------
(* The steps of a call.                                                    *)

\* A call that begins joins the batch; one under its first credentials is hopeful.
LEMMA CompleteStep ==
  ASSUME IInv, NEW k \in Calls, Complete(k)
  PROVE  IInv'
<1> DEFINE c == IF token # 0 THEN [call[k] EXCEPT !.at = "send", !.stream = Streaming]
                ELSE [call[k] EXCEPT !.at = "registering"]
<1>1. TypeOK /\ NoLostWaiter /\ NothingInVain /\ Batch /\ call[k].at = "new" /\ call[k] \in CallStates
  BY DEF IInv, Complete, TypeOK
<1>2. /\ c \in CallStates /\ c.at = IF token # 0 THEN "send" ELSE "registering"
      /\ c.cred = 0 /\ ~c.retried /\ ~c.aborted /\ c.result = "none"
  BY <1>1, SettingAssumption DEF CallStates, NothingInVain
<1>3. Update(k, c) /\ UNCHANGED <<epoch, revoked, token, wait>>
  BY DEF Complete
<1>4. IF token # 0 THEN reg' = reg ELSE reg' = IF reg.at = "idle" THEN [reg EXCEPT !.at = "asked", !.owner = k] ELSE reg
  BY DEF Complete, BeginRegistration
<1>5. /\ reg' \in [at : {"idle", "asked", "reading", "storing"}, owner : Calls \cup {Nobody}, got : Nat]
      /\ reg'.at = IF token = 0 /\ reg.at = "idle" THEN "asked" ELSE reg.at
      /\ reg'.got = reg.got
  BY <1>1, <1>4 DEF TypeOK
<1>6. calm' = IF calm # {} \/ (Quiet /\ wait = 0) THEN calm \cup {k} ELSE {}
  BY DEF Complete
<1> HIDE DEF c
<1>7. /\ call' \in [Calls -> CallStates]
      /\ call'[k] = c /\ \A j \in Calls : j # k => call'[j] = call[j]
      /\ renew' = renew
      /\ renew' \in {"idle", "reset", "ensure", "registering", "linking", "reading"}
  BY <1>1, <1>2, <1>3, UpdateCall
<1>8. TypeOK'
  BY <1>1, <1>3, <1>5, <1>6, <1>7 DEF TypeOK
<1>9. NoLostWaiter' /\ NothingInVain'
  <2>1. reg'.at # "idle" => token' = 0
    BY <1>1, <1>3, <1>5 DEF NothingInVain
  <2>2. c.at = "registering" \/ reg.at # "idle" => reg'.at # "idle"
    BY <1>2, <1>5
  <2>3. QED
    BY <1>1, <1>2, <1>3, <2>1, <2>2, UpdateWaiters
<1>10. Batch'
  <2> SUFFICES ASSUME calm' # {}, ~revoked'
               PROVE  Renewing' /\ Undisturbed' /\ \E j \in calm' : Hopeful(j)'
    BY DEF Batch
  <2>1. calm' = calm \cup {k} /\ calm \in SUBSET Calls
    BY <1>1, <1>6 DEF TypeOK
  <2>2. Hopeful(k)'
    BY <1>2, <1>7 DEF Hopeful, InFlight
  <2>3. CASE calm = {}
    <3>1. Quiet /\ wait = 0
      BY <1>6, <2>3
    <3>2. Renewing'
      BY <1>3, <1>5, <1>7, <3>1 DEF Renewing, Quiet
    <3>3. Undisturbed'
      <4>1. \A j \in Calls : j # k => ~InFlight(j)'
        BY <1>7, <3>1 DEF Quiet, InFlight
      <4>2. \A j \in calm' : j = k
        BY <2>1, <2>3
      <4>3. k \in calm' /\ wait' = 0 /\ epoch' # 0
        BY <1>1, <1>3, <2>1, <3>1 DEF TypeOK
      <4>4. call'[k].at \notin {"new", "reading"} /\ ~call'[k].aborted /\ ~call'[k].retried
            /\ call'[k].result # "answer" /\ call'[k].cred = 0
        BY <1>2, <1>7
      <4>5. QED
        BY <4>1, <4>2, <4>3, <4>4 DEF Undisturbed
    <3>4. QED
      BY <2>1, <2>2, <3>2, <3>3
  <2>4. CASE calm # {}
    <3>1. Renewing /\ Undisturbed /\ epoch # 0
      BY <1>1, <1>3, <2>4 DEF Batch, TypeOK
    <3>2. Renewing'
      BY <1>3, <1>5, <1>7, <3>1 DEF Renewing
    <3>3. wait' = 0 /\ \A j \in Calls : InFlight(j)' => j \in calm'
      BY <1>3, <1>7, <2>1, <3>1 DEF Undisturbed, InFlight
    <3>4. \A j \in calm' :
            /\ call'[j].at # "new" /\ ~call'[j].aborted
            /\ call'[j].result = "answer" \/ call'[j].at = "reading" => call'[j].cred = epoch'
            /\ call'[j].cred = epoch' \/ call'[j].retried => renew' # "idle" \/ token' = epoch'
      BY <1>2, <1>3, <1>7, <2>1, <3>1 DEF Undisturbed
    <3>5. QED
      BY <2>1, <2>2, <3>2, <3>3, <3>4 DEF Undisturbed
  <2>5. QED
    BY <2>3, <2>4
<1>11. QED
  BY <1>8, <1>9, <1>10 DEF IInv

\* A step that changes a call in flight and nothing else, but perhaps the pause.
LEMMA CallUpdate ==
  ASSUME IInv, NEW k \in Calls, NEW c \in CallStates, Update(k, c),
         UNCHANGED <<epoch, revoked, token>>, reg' = reg, wait' \in 0..MaxWait, calm' \in SUBSET Calls,
         call[k].at # "new", c.at \notin {"new", "registering"} \/ c.at = call[k].at,
         call[k].at = "renewing" => c.at = "renewing",
         c.result # "none" => c.at = "done",
         Batch'
  PROVE  IInv'
<1>1. TypeOK /\ NoLostWaiter /\ NothingInVain
  BY DEF IInv
<1>2. /\ call' \in [Calls -> CallStates]
      /\ renew' \in {"idle", "reset", "ensure", "registering", "linking", "reading"}
  BY <1>1, UpdateCall
<1>3. TypeOK'
  BY <1>1, <1>2 DEF TypeOK
<1>4. c.at = "registering" \/ reg.at # "idle" => reg'.at # "idle"
  BY <1>1 DEF NoLostWaiter
<1>5. reg'.at # "idle" => token' = 0
  BY <1>1 DEF NothingInVain
<1>6. c.at # "new"
  OBVIOUS
<1>7. NoLostWaiter' /\ NothingInVain'
  BY <1>1, <1>4, <1>5, <1>6, UpdateWaiters
<1>8. QED
  BY <1>3, <1>7 DEF IInv

LEMMA SendStep ==
  ASSUME IInv, NEW k \in Calls, Send(k)
  PROVE  IInv'
<1> DEFINE c == CASE wait > 0 -> Failed(call[k], "unavailable")
                  [] wait = 0 /\ call[k].aborted -> Failed(call[k], "cancelled")
                  [] OTHER -> [call[k] EXCEPT !.at = "sent", !.cred = token]
<1>1. TypeOK /\ Batch /\ NothingInVain /\ call[k].at = "send" /\ call[k] \in CallStates /\ wait \in Nat
      /\ call[k].result = "none" /\ InFlight(k) /\ token \in Nat
  BY WaitAssumption DEF IInv, Send, TypeOK, NothingInVain, InFlight
<1>2. Update(k, c) /\ UNCHANGED <<epoch, revoked, token, reg, wait, calm>>
  BY DEF Send
<1>3. \/ /\ wait > 0 \/ call[k].aborted
         /\ c = Failed(call[k], "unavailable") \/ c = Failed(call[k], "cancelled")
      \/ wait = 0 /\ ~call[k].aborted /\ c = [call[k] EXCEPT !.at = "sent", !.cred = token]
  BY <1>1
<1> HIDE DEF c
<1>4. /\ c \in CallStates /\ c.retried = call[k].retried /\ c.aborted = call[k].aborted
      /\ c.result # "none" => c.at = "done"
      /\ \/ /\ wait > 0 \/ call[k].aborted
            /\ c.at = "done" /\ c.cred = call[k].cred /\ c.result # "answer"
         \/ wait = 0 /\ ~call[k].aborted /\ c.at = "sent" /\ c.cred = token /\ c.result = "none"
  <2>1. CASE wait > 0 \/ call[k].aborted
    <3>1. c = Failed(call[k], "unavailable") \/ c = Failed(call[k], "cancelled")
      BY <1>1, <1>3, <2>1
    <3>2. QED
      BY <1>1, <2>1, <3>1, FailedCall DEF Errors
  <2>2. CASE wait = 0 /\ ~call[k].aborted /\ c = [call[k] EXCEPT !.at = "sent", !.cred = token]
    BY <1>1, <2>2 DEF CallStates
  <2>3. QED
    BY <1>3, <2>1, <2>2
<1>5. ASSUME calm # {}, ~revoked
      PROVE  c.at = "sent" /\ c.cred = token /\ c.result = "none"
  <2>1. wait = 0 /\ ~call[k].aborted
    BY <1>1, <1>5 DEF Batch, Undisturbed
  <2>2. QED
    BY <1>4, <2>1
<1>6. call' = [call EXCEPT ![k] = c] /\ call'[k] = c
  BY <1>1, <1>2 DEF Update, TypeOK
<1>7. ASSUME calm # {}, ~revoked, Hopeful(k)
      PROVE  Hopeful(k)'
  BY <1>1, <1>2, <1>4, <1>5, <1>6, <1>7 DEF Hopeful, InFlight
<1>8. Batch'
  BY <1>1, <1>2, <1>4, <1>5, <1>7, UpdateBatch
<1>9. QED
  BY <1>1, <1>2, <1>4, <1>8, CallUpdate DEF TypeOK

LEMMA AcceptedStep ==
  ASSUME IInv, NEW k \in Calls, Accepted(k) \/ Read(k)
  PROVE  IInv'
<1> DEFINE c == IF call[k].at = "sent" THEN [call[k] EXCEPT !.at = "reading"]
                ELSE [call[k] EXCEPT !.at = "done", !.result = "answer"]
<1>1. TypeOK /\ Batch /\ NothingInVain /\ call[k].at \in {"sent", "reading"} /\ call[k] \in CallStates
      /\ call[k].result = "none" /\ InFlight(k)
      /\ (call[k].at = "sent" => call[k].cred = epoch)
  BY DEF IInv, Accepted, Read, Valid, TypeOK, NothingInVain, InFlight
<1>2. Update(k, c) /\ UNCHANGED <<epoch, revoked, token, reg, wait, calm>>
  BY DEF Accepted, Read, Answer
<1>3. /\ c \in CallStates /\ c.retried = call[k].retried /\ c.aborted = call[k].aborted
      /\ c.cred = call[k].cred
      /\ \/ c.at = "reading" /\ c.result = "none"
         \/ c.at = "done" /\ c.result = "answer"
  BY <1>1 DEF CallStates
<1> HIDE DEF c
<1>4. calm # {} /\ ~revoked => c.cred = epoch
  <2>1. calm # {} /\ ~revoked => k \in calm /\ Undisturbed
    BY <1>1 DEF Batch, Undisturbed
  <2>2. QED
    BY <1>1, <1>3, <2>1 DEF Undisturbed
<1>5. call' = [call EXCEPT ![k] = c] /\ call'[k] = c
  BY <1>1, <1>2 DEF Update, TypeOK
<1>6. Hopeful(k)'
  BY <1>3, <1>5 DEF Hopeful
<1>7. Batch'
  BY <1>1, <1>2, <1>3, <1>4, <1>6, UpdateBatch
<1>8. QED
  BY <1>1, <1>2, <1>3, <1>7, CallUpdate DEF TypeOK

\* A refused call that has not been sent twice waits for the renewal.
LEMMA RejectedStep ==
  ASSUME IInv, NEW k \in Calls, Rejected(k)
  PROVE  IInv'
<1> DEFINE c == Failed(call[k], "unauthorized")
<1>1. TypeOK /\ Batch /\ NothingInVain /\ call[k].at = "sent" /\ call[k] \in CallStates
      /\ call[k].result = "none" /\ InFlight(k) /\ (~revoked => call[k].cred # epoch)
  BY DEF IInv, Rejected, Valid, TypeOK, NothingInVain, InFlight
<1>2. Update(k, c) /\ UNCHANGED <<epoch, revoked, token, reg, wait, calm>>
  BY DEF Rejected, Failed
<1>3. /\ c \in CallStates /\ c.retried = call[k].retried /\ c.aborted = call[k].aborted
      /\ c.cred = call[k].cred
      /\ \/ c.at = "done" /\ c.result \in {"empty", "quota", "offline"}
         \/ c.at = "renewing" /\ c.result = "none"
      /\ ~call[k].aborted /\ ~call[k].retried => c.at = "renewing"
  BY <1>1, FailedCall DEF Errors
<1> HIDE DEF c
<1>4. call' = [call EXCEPT ![k] = c] /\ call'[k] = c
  BY <1>1, <1>2 DEF Update, TypeOK
<1>5. ASSUME calm # {}, ~revoked, k \in calm, Hopeful(k)
      PROVE  Hopeful(k)'
  <2>1. ~call[k].aborted
    BY <1>1, <1>5 DEF Batch, Undisturbed
  <2>2. ~call[k].retried
    BY <1>1, <1>5 DEF Hopeful, InFlight
  <2>3. QED
    BY <1>3, <1>4, <2>1, <2>2 DEF Hopeful
<1>6. Batch'
  BY <1>1, <1>2, <1>3, <1>5, UpdateBatch
<1>7. QED
  BY <1>1, <1>2, <1>3, <1>6, CallUpdate DEF TypeOK

\* The standard endpoint is asked with the token of the moment: that of the refused
\* stream, or one that a renewal leaves.
LEMMA NotFoundStep ==
  ASSUME IInv, NEW k \in Calls, NotFound(k)
  PROVE  IInv'
<1> DEFINE c == [call[k] EXCEPT !.at = "send", !.stream = FALSE]
<1>1. TypeOK /\ Batch /\ NothingInVain /\ call[k].at = "sent" /\ call[k] \in CallStates
      /\ call[k].result = "none" /\ InFlight(k) /\ ~revoked /\ call[k].cred = epoch
  BY DEF IInv, NotFound, Valid, TypeOK, NothingInVain, InFlight
<1>2. Update(k, c) /\ UNCHANGED <<epoch, revoked, token, reg, wait, calm>>
  BY DEF NotFound
<1>3. /\ c \in CallStates /\ c.retried = call[k].retried /\ c.aborted = call[k].aborted
      /\ c.cred = call[k].cred /\ c.at = "send" /\ c.result = "none"
  BY <1>1 DEF CallStates
<1> HIDE DEF c
<1>4. /\ call' \in [Calls -> CallStates] /\ call'[k] = c /\ renew' = renew
      /\ \A j \in Calls : j # k => call'[j] = call[j]
  BY <1>1, <1>2, <1>3, UpdateCall DEF IInv
<1>5. Batch'
  <2>1. CASE calm = {}
    BY <1>2, <2>1 DEF Batch
  <2>2. CASE calm # {}
    <3>1. k \in calm /\ Undisturbed /\ Renewing /\ calm \in SUBSET Calls
      BY <1>1, <2>2 DEF Batch, Undisturbed, TypeOK
    <3>2. renew # "idle" \/ token = epoch
      BY <1>1, <3>1 DEF Undisturbed
    <3>3. \E j \in calm : Hopeful(j)'
      <4>1. CASE renew = "idle"
        BY <1>2, <1>3, <1>4, <3>1, <3>2, <4>1 DEF Hopeful
      <4>2. CASE renew # "idle"
        <5>1. PICK j \in Calls : call[j].at = "renewing"
          BY <1>1, <4>2 DEF NothingInVain
        <5>2. j \in calm /\ j # k
          BY <1>1, <3>1, <5>1 DEF Undisturbed, InFlight
        <5>3. Hopeful(j)'
          BY <1>4, <5>1, <5>2 DEF Hopeful
        <5>4. QED
          BY <5>2, <5>3
      <4>3. QED
        BY <4>1, <4>2
    <3>4. Renewing'
      BY <1>2, <1>4, <3>1 DEF Renewing
    <3>5. wait' = 0 /\ \A j \in Calls : InFlight(j)' => j \in calm'
      BY <1>2, <1>4, <3>1 DEF Undisturbed, InFlight
    <3>6. \A j \in calm' :
            /\ call'[j].at # "new" /\ ~call'[j].aborted
            /\ call'[j].result = "answer" \/ call'[j].at = "reading" => call'[j].cred = epoch'
            /\ call'[j].cred = epoch' \/ call'[j].retried => renew' # "idle" \/ token' = epoch'
      BY <1>2, <1>3, <1>4, <3>1 DEF Undisturbed
    <3>7. QED
      BY <1>2, <3>3, <3>4, <3>5, <3>6 DEF Batch, Undisturbed
  <2>3. QED
    BY <2>1, <2>2
<1>6. QED
  BY <1>1, <1>2, <1>3, <1>5, CallUpdate DEF TypeOK

\* Failures end the batch.
LEMMA TroubleStep ==
  ASSUME IInv, NEW k \in Calls, TurnedAway(k) \/ ReadFails(k)
  PROVE  IInv'
<1>1. TypeOK /\ NothingInVain /\ call[k].at \in {"sent", "reading"} /\ call[k] \in CallStates
      /\ call[k].result = "none"
  BY DEF IInv, TurnedAway, ReadFails, TypeOK, NothingInVain
<1>2. /\ \E error \in Errors \ {"unauthorized"} : Update(k, Failed(call[k], error))
      /\ wait' \in 0..MaxWait
      /\ UNCHANGED <<epoch, revoked, token, reg>> /\ calm' = {}
  BY <1>1, WaitAssumption DEF TurnedAway, ReadFails, Errors, TypeOK
<1>3. PICK error \in Errors \ {"unauthorized"} : Update(k, Failed(call[k], error))
  BY <1>2
<1> DEFINE c == Failed(call[k], error)
<1>4. c \in CallStates /\ c.at = "done"
  BY <1>1, FailedCall
<1> HIDE DEF c
<1>5. Batch'
  BY <1>2 DEF Batch
<1>6. QED
  BY <1>1, <1>2, <1>3, <1>4, <1>5, CallUpdate DEF c

-----------------------------------------------------------------------------
(* Registration and renewal.                                               *)

\* A failed registration leaves nobody waiting for it.
LEMMA RejectRegistrationStep ==
  ASSUME TypeOK, NoLostWaiter, NothingInVain, NEW error \in Errors, RejectRegistration(error),
         UNCHANGED <<epoch, revoked, token, wait>>, calm' \in {{}, calm}
  PROVE  TypeOK' /\ NoLostWaiter' /\ NothingInVain'
<1> DEFINE new(k) == CASE call[k].at = "registering" -> Failed(call[k], error)
                       [] call[k].at = "renewing" /\ renew = "registering" -> Answer(call[k], "empty")
                       [] OTHER -> call[k]
<1>1. /\ reg' = [at |-> "idle", owner |-> Nobody, got |-> 0]
      /\ call' = [k \in Calls |-> new(k)]
      /\ renew' = IF \E k \in Calls : call'[k].at = "renewing"
                  THEN IF renew \in {"idle", "registering"} THEN "reset" ELSE renew
                  ELSE IF renew = "registering" THEN "idle" ELSE renew
  BY DEF RejectRegistration
<1>2. ASSUME NEW k \in Calls
      PROVE  /\ new(k) \in CallStates
             /\ new(k).at # "registering"
             /\ (new(k).at = "new" => new(k) = call[k])
             /\ (new(k).result # "none" => new(k).at = "done")
             /\ (call[k].at = "renewing" /\ renew # "registering" => new(k).at = "renewing")
  <2>1. call[k] \in CallStates /\ (call[k].result # "none" => call[k].at = "done")
    BY DEF TypeOK, NothingInVain
  <2>2. CASE call[k].at = "registering"
    <3>1. new(k) = Failed(call[k], error)
      BY <2>2
    <3>2. call[k].result = "none"
      BY <2>1, <2>2
    <3> HIDE DEF new
    <3>3. QED
      BY <2>1, <2>2, <3>1, <3>2, FailedCall
  <2>3. CASE call[k].at = "renewing" /\ renew = "registering"
    <3>1. new(k) = Answer(call[k], "empty")
      BY <2>3
    <3> HIDE DEF new
    <3>2. QED
      BY <2>1, <2>3, <3>1 DEF Answer, CallStates
  <2>4. CASE call[k].at # "registering" /\ ~(call[k].at = "renewing" /\ renew = "registering")
    <3>1. new(k) = call[k]
      BY <2>4
    <3> HIDE DEF new
    <3>2. QED
      BY <2>1, <2>4, <3>1
  <2>5. QED
    BY <2>2, <2>3, <2>4
<1> HIDE DEF new
<1>3. TypeOK'
  BY <1>1, <1>2 DEF TypeOK
<1>4. NoLostWaiter'
  <2>1. \A k \in Calls : call'[k].at # "registering"
    BY <1>1, <1>2
  <2>2. renew' # "registering" /\ \A k \in Calls : call'[k].at = "renewing" => renew' # "idle"
    BY <1>1
  <2>3. QED
    BY <2>1, <2>2 DEF NoLostWaiter
<1>5. NothingInVain'
  <2>1. reg'.at = "idle"
    BY <1>1
  <2>2. ASSUME renew' # "idle"
        PROVE  \E k \in Calls : call'[k].at = "renewing"
    <3> SUFFICES ASSUME \A k \in Calls : call'[k].at # "renewing"
                 PROVE  FALSE
      OBVIOUS
    <3>1. renew \notin {"idle", "registering"}
      BY <1>1, <2>2
    <3>2. PICK k \in Calls : call[k].at = "renewing"
      BY <3>1 DEF NothingInVain
    <3>3. QED
      BY <1>1, <1>2, <3>1, <3>2
  <2>3. \A k \in Calls : call'[k].at = "new" => call'[k].cred = 0 /\ ~call'[k].retried /\ ~call'[k].aborted
    BY <1>1, <1>2 DEF NothingInVain
  <2>4. \A k \in Calls : call'[k].result # "none" => call'[k].at = "done"
    BY <1>1, <1>2
  <2>5. QED
    BY <2>1, <2>2, <2>3, <2>4 DEF NothingInVain
<1>6. QED
  BY <1>3, <1>4, <1>5

LEMMA RegisteredStep ==
  ASSUME IInv, Registered
  PROVE  IInv'
<1>1. TypeOK /\ NoLostWaiter /\ NothingInVain /\ Batch /\ reg.at = "asked"
      /\ UNCHANGED <<epoch, revoked, token, wait, calm>>
  BY DEF IInv, Registered
<1>2. CASE revoked
  <2>1. RejectRegistration("unauthorized")
    BY <1>2 DEF Registered
  <2>2. TypeOK' /\ NoLostWaiter' /\ NothingInVain'
    BY <1>1, <2>1, RejectRegistrationStep DEF Errors
  <2>3. Batch'
    BY <1>1, <1>2 DEF Batch
  <2>4. QED
    BY <2>2, <2>3 DEF IInv
<1>3. CASE ~revoked
  <2>1. reg' = [reg EXCEPT !.at = "reading", !.got = epoch] /\ UNCHANGED <<call, renew>>
    BY <1>3 DEF Registered
  <2>2. /\ reg' \in [at : {"idle", "asked", "reading", "storing"}, owner : Calls \cup {Nobody}, got : Nat]
        /\ reg'.at = "reading" /\ reg'.got = epoch
    BY <1>1, <2>1 DEF TypeOK
  <2>3. TypeOK' /\ NoLostWaiter'
    BY <1>1, <2>1, <2>2 DEF TypeOK, NoLostWaiter
  <2>4. NothingInVain'
    BY <1>1, <2>1, <2>2 DEF NothingInVain
  <2>5. Batch'
    BY <1>1, <2>1, <2>2 DEF Batch, Renewing, Undisturbed, Hopeful, InFlight
  <2>6. QED
    BY <2>3, <2>4, <2>5 DEF IInv
<1>4. QED
  BY <1>1, <1>2, <1>3 DEF TypeOK

\* Reading a body changes who waits for nothing.
LEMMA ReadingStep ==
  ASSUME IInv, RegistrationRead \/ LinkAnswered
  PROVE  IInv'
<1>1. TypeOK /\ NoLostWaiter /\ NothingInVain /\ Batch
      /\ UNCHANGED <<epoch, revoked, token, call, wait, calm>>
  BY DEF IInv, RegistrationRead, LinkAnswered
<1>2. \/ /\ reg.at = "reading" /\ renew' = renew
         /\ reg' = [reg EXCEPT !.at = "storing"]
      \/ renew = "linking" /\ renew' = "reading" /\ reg' = reg
  BY DEF RegistrationRead, LinkAnswered
<1>3. /\ reg' \in [at : {"idle", "asked", "reading", "storing"}, owner : Calls \cup {Nobody}, got : Nat]
      /\ (reg'.at = "idle" <=> reg.at = "idle") /\ reg'.got = reg.got
      /\ (reg'.at \in {"reading", "storing"} <=> reg.at \in {"reading", "storing"})
  BY <1>1, <1>2 DEF TypeOK
<1>4. TypeOK' /\ NoLostWaiter' /\ NothingInVain'
  BY <1>1, <1>2, <1>3 DEF TypeOK, NoLostWaiter, NothingInVain
<1>5. Batch'
  <2> SUFFICES ASSUME calm' # {}, ~revoked'
               PROVE  Renewing' /\ Undisturbed' /\ \E j \in calm' : Hopeful(j)'
    BY DEF Batch
  <2>1. Renewing /\ Undisturbed
    BY <1>1 DEF Batch
  <2>2. Renewing'
    BY <1>1, <1>2, <1>3, <2>1 DEF Renewing
  <2>3. Undisturbed'
    BY <1>1, <1>2, <2>1 DEF Undisturbed, InFlight
  <2>4. \E j \in calm' : Hopeful(j)'
    BY <1>1, <1>2 DEF Batch, Hopeful, InFlight
  <2>5. QED
    BY <2>2, <2>3, <2>4
<1>6. QED
  BY <1>4, <1>5 DEF IInv

\* The calls that waited for the registration read the new token.
LEMMA StoreTokenStep ==
  ASSUME IInv, StoreToken
  PROVE  IInv'
<1>1. TypeOK /\ NoLostWaiter /\ NothingInVain /\ Batch /\ reg.at = "storing"
      /\ UNCHANGED <<epoch, revoked, wait, calm>> /\ token' = reg.got
      /\ reg' = [at |-> "idle", owner |-> Nobody, got |-> 0]
      /\ renew' = (IF renew = "registering" THEN "linking" ELSE renew)
  BY DEF IInv, StoreToken
<1>2. ASSUME NEW k \in Calls
      PROVE  /\ call'[k] \in CallStates
             /\ call'[k].cred = call[k].cred /\ call'[k].retried = call[k].retried
             /\ call'[k].aborted = call[k].aborted /\ call'[k].result = call[k].result
             /\ call'[k].at = IF call[k].at = "registering" THEN "send" ELSE call[k].at
  <2>1. call[k] \in CallStates
    BY <1>1 DEF TypeOK
  <2>2. call'[k] = IF call[k].at = "registering" THEN [call[k] EXCEPT !.at = "send", !.stream = Streaming]
                   ELSE call[k]
    BY DEF StoreToken
  <2>3. QED
    BY <2>1, <2>2, SettingAssumption DEF CallStates
<1>3. TypeOK'
  <2>1. call' = [k \in Calls |-> call'[k]]
    BY DEF StoreToken
  <2>2. call' \in [Calls -> CallStates]
    BY <1>2, <2>1
  <2>3. QED
    BY <1>1, <2>2 DEF TypeOK
<1>4. NoLostWaiter'
  BY <1>1, <1>2 DEF NoLostWaiter
<1>5. NothingInVain'
  <2>1. renew' # "idle" => \E k \in Calls : call'[k].at = "renewing"
    <3>1. renew' # "idle" => \E k \in Calls : call[k].at = "renewing"
      BY <1>1 DEF NothingInVain
    <3>2. QED
      BY <1>2, <3>1
  <2>2. \A k \in Calls : /\ call'[k].at = "new" => call'[k].cred = 0 /\ ~call'[k].retried /\ ~call'[k].aborted
                         /\ call'[k].result # "none" => call'[k].at = "done"
    BY <1>1, <1>2 DEF NothingInVain
  <2>3. QED
    BY <1>1, <2>1, <2>2 DEF NothingInVain
<1>6. Batch'
  <2> SUFFICES ASSUME calm' # {}, ~revoked'
               PROVE  Renewing' /\ Undisturbed' /\ \E j \in calm' : Hopeful(j)'
    BY DEF Batch
  <2>1. Renewing /\ Undisturbed /\ calm \in SUBSET Calls
    BY <1>1 DEF Batch, TypeOK
  <2>2. token' = epoch
    BY <1>1, <2>1 DEF Renewing
  <2>3. Renewing'
    BY <1>1, <2>1, <2>2 DEF Renewing
  <2>4. Undisturbed'
    BY <1>1, <1>2, <2>1, <2>2 DEF Undisturbed, InFlight
  <2>5. PICK h \in calm : Hopeful(h)
    BY <1>1 DEF Batch
  <2>6. Hopeful(h)'
    BY <1>1, <1>2, <2>1, <2>2, <2>5 DEF Hopeful, InFlight
  <2>7. QED
    BY <1>1, <2>3, <2>4, <2>5, <2>6
<1>7. QED
  BY <1>3, <1>4, <1>5, <1>6 DEF IInv

\* The renewal forgets the token it was begun for, and asks for another.
LEMMA RenewBeginStep ==
  ASSUME IInv, RenewReset \/ RenewEnsure
  PROVE  IInv'
<1>1. TypeOK /\ NoLostWaiter /\ NothingInVain /\ Batch
      /\ UNCHANGED <<epoch, revoked, call, wait, calm>>
      /\ renew # "idle" /\ renew' \in {"ensure", "registering", "linking"}
  BY DEF IInv, RenewReset, RenewEnsure
<1>2. \/ renew' = "ensure" /\ token' = 0 /\ reg' = reg
      \/ renew' = "linking" /\ renew = "ensure" /\ token # 0 /\ token' = token /\ reg' = reg
      \/ /\ renew' = "registering" /\ token = 0 /\ token' = 0
         /\ reg' = IF reg.at = "idle" THEN [reg EXCEPT !.at = "asked", !.owner = Nobody] ELSE reg
  BY DEF RenewReset, RenewEnsure, ResetToken, BeginRegistration
<1>3. /\ reg' \in [at : {"idle", "asked", "reading", "storing"}, owner : Calls \cup {Nobody}, got : Nat]
      /\ (reg'.at = "storing" => reg.at = "storing" /\ reg'.got = reg.got)
      /\ (renew' = "registering" \/ reg.at # "idle" => reg'.at # "idle")
      /\ (reg'.at # "idle" => token' = 0)
      /\ token' \in {0, token}
      /\ (renew' = "linking" => token # 0 /\ token' = token /\ renew = "ensure")
  BY <1>1, <1>2 DEF TypeOK, NothingInVain
<1>4. TypeOK'
  BY <1>1, <1>3 DEF TypeOK
<1>5. NoLostWaiter' /\ NothingInVain'
  BY <1>1, <1>3 DEF NoLostWaiter, NothingInVain
<1>6. Batch'
  <2> SUFFICES ASSUME calm' # {}, ~revoked'
               PROVE  Renewing' /\ Undisturbed' /\ \E j \in calm' : Hopeful(j)'
    BY DEF Batch
  <2>1. Renewing /\ Undisturbed
    BY <1>1 DEF Batch
  <2>2. Renewing'
    BY <1>1, <1>2, <1>3, <2>1 DEF Renewing
  <2>3. Undisturbed'
    BY <1>1, <2>1 DEF Undisturbed, InFlight
  <2>4. \E j \in calm' : Hopeful(j)'
    BY <1>1 DEF Batch, Hopeful, InFlight
  <2>5. QED
    BY <2>2, <2>3, <2>4
<1>7. QED
  BY <1>4, <1>5, <1>6 DEF IInv

\* Whoever waited retries with the token of the renewal.
LEMMA RenewDoneStep ==
  ASSUME IInv, RenewDone
  PROVE  IInv'
<1>1. TypeOK /\ NoLostWaiter /\ NothingInVain /\ Batch
      /\ UNCHANGED <<epoch, revoked, token, reg, wait, calm>>
      /\ renew \in {"linking", "reading"} /\ renew' = "idle"
  BY DEF IInv, RenewDone
<1>2. ASSUME NEW k \in Calls
      PROVE  \/ call[k].at # "renewing" /\ call'[k] = call[k]
             \/ /\ call[k].at = "renewing" /\ call[k].aborted
                /\ call'[k] = Answer(call[k], "empty")
             \/ /\ call[k].at = "renewing" /\ ~call[k].aborted
                /\ call'[k] = [call[k] EXCEPT !.at = "send", !.stream = Streaming, !.retried = TRUE]
  BY DEF RenewDone, Released
<1>3. ASSUME NEW k \in Calls
      PROVE  /\ call'[k] \in CallStates
             /\ call'[k].aborted = call[k].aborted /\ call'[k].cred = call[k].cred
             /\ call'[k].at # "renewing"
             /\ \/ call'[k] = call[k]
                \/ /\ call[k].at = "renewing" /\ call[k].aborted
                   /\ call'[k].at = "done" /\ call'[k].result = "empty"
                \/ /\ call[k].at = "renewing" /\ ~call[k].aborted
                   /\ call'[k].at = "send" /\ call'[k].result = call[k].result
  <2>1. call[k] \in CallStates
    BY <1>1 DEF TypeOK
  <2>2. CASE call'[k] = call[k] /\ call[k].at # "renewing"
    BY <2>1, <2>2
  <2>3. CASE call[k].at = "renewing" /\ call[k].aborted /\ call'[k] = Answer(call[k], "empty")
    <3>1. /\ call'[k] \in CallStates
          /\ call'[k].aborted = call[k].aborted /\ call'[k].cred = call[k].cred
          /\ call'[k].at = "done" /\ call'[k].result = "empty"
      BY <2>1, <2>3 DEF Answer, CallStates
    <3>2. QED
      BY <2>3, <3>1
  <2>4. CASE /\ call[k].at = "renewing" /\ ~call[k].aborted
             /\ call'[k] = [call[k] EXCEPT !.at = "send", !.stream = Streaming, !.retried = TRUE]
    BY <2>1, <2>4, SettingAssumption DEF CallStates
  <2>5. QED
    BY <1>2, <2>2, <2>3, <2>4
<1>4. TypeOK'
  <2>1. call' = [k \in Calls |-> call'[k]]
    BY DEF RenewDone
  <2>2. call' \in [Calls -> CallStates]
    BY <1>3, <2>1
  <2>3. QED
    BY <1>1, <2>2 DEF TypeOK
<1>5. NoLostWaiter'
  BY <1>1, <1>3 DEF NoLostWaiter
<1>6. NothingInVain'
  <2>1. \A k \in Calls : /\ call'[k].at = "new" => call'[k].cred = 0 /\ ~call'[k].retried /\ ~call'[k].aborted
                         /\ call'[k].result # "none" => call'[k].at = "done"
    BY <1>1, <1>3 DEF NothingInVain
  <2>2. reg'.at # "idle" => token' = 0
    BY <1>1 DEF NothingInVain
  <2>3. QED
    BY <1>1, <2>1, <2>2 DEF NothingInVain
<1>7. Batch'
  <2> SUFFICES ASSUME calm' # {}, ~revoked'
               PROVE  Renewing' /\ Undisturbed' /\ \E j \in calm' : Hopeful(j)'
    BY DEF Batch
  <2>1. Renewing /\ Undisturbed /\ calm \in SUBSET Calls
    BY <1>1 DEF Batch, TypeOK
  <2>2. token' = epoch' /\ token = epoch
    BY <1>1, <2>1 DEF Renewing
  <2>3. Renewing'
    BY <1>1, <2>1 DEF Renewing
  <2>4. Undisturbed'
    <3>1. \A k \in Calls : InFlight(k)' => InFlight(k)
      BY <1>3 DEF InFlight
    <3>2. \A k \in calm' : call'[k].at # "new" /\ ~call'[k].aborted
      BY <1>1, <1>3, <2>1 DEF Undisturbed
    <3>3. \A k \in calm' : call'[k].result = "answer" \/ call'[k].at = "reading" => call'[k].cred = epoch'
      BY <1>1, <1>3, <2>1 DEF Undisturbed
    <3>4. QED
      BY <1>1, <2>1, <2>2, <3>1, <3>2, <3>3 DEF Undisturbed
  <2>5. PICK h \in calm : Hopeful(h)
    BY <1>1 DEF Batch
  <2>6. Hopeful(h)'
    BY <1>1, <1>3, <2>1, <2>2, <2>5 DEF Hopeful, InFlight, Undisturbed
  <2>7. QED
    BY <1>1, <2>3, <2>4, <2>6
<1>8. QED
  BY <1>4, <1>5, <1>6, <1>7 DEF IInv

-----------------------------------------------------------------------------
(* What happens outside.                                                   *)

\* A signal takes a call out of its waiting, or is noticed later.
LEMMA AbortStep ==
  ASSUME IInv, NEW k \in Calls, Abort(k)
  PROVE  IInv'
<1> DEFINE a == [call[k] EXCEPT !.aborted = TRUE]
           c == IF call[k].at = "sent" THEN Answer(a, "empty") ELSE a
<1>1. TypeOK /\ NoLostWaiter /\ NothingInVain /\ call[k] \in CallStates
      /\ InFlight(k) /\ UNCHANGED <<epoch, revoked, token, wait>> /\ calm' = {}
  BY DEF IInv, Abort, TypeOK
<1>2. Batch'
  BY <1>1 DEF Batch
<1>3. CASE RejectRegistration("cancelled")
  BY <1>1, <1>2, <1>3, RejectRegistrationStep DEF Errors, IInv
<1>4. CASE Update(k, c) /\ UNCHANGED reg
  <2>1. /\ c \in CallStates /\ call[k].at \notin {"new", "done"}
        /\ (c.at = call[k].at \/ (call[k].at = "sent" /\ c.at = "done"))
        /\ (c.result # "none" => c.at = "done")
    BY <1>1 DEF CallStates, Answer, NothingInVain, InFlight
  <2>2. wait' \in 0..MaxWait
    BY <1>1 DEF TypeOK
  <2> HIDE DEF c
  <2>3. QED
    BY <1>1, <1>2, <1>4, <2>1, <2>2, CallUpdate
<1>5. QED
  BY <1>3, <1>4 DEF Abort

LEMMA RegistrationFailsStep ==
  ASSUME IInv, RegistrationFails
  PROVE  IInv'
<1>1. /\ RejectRegistration("timeout")
      /\ UNCHANGED <<epoch, revoked, token, wait>> /\ calm' = {}
  BY DEF RegistrationFails
<1>2. TypeOK' /\ NoLostWaiter' /\ NothingInVain'
  BY <1>1, RejectRegistrationStep DEF IInv, Errors
<1>3. QED
  BY <1>1, <1>2 DEF IInv, Batch

\* Rotations, revocations and other windows end the batch; time passes.
LEMMA OutsideStep ==
  ASSUME IInv, RotateSecret \/ Revoke \/ ResetElsewhere \/ Tick \/ UNCHANGED vars
  PROVE  IInv'
<1>1. CASE RotateSecret \/ Revoke \/ ResetElsewhere
  <2>1. UNCHANGED <<reg, renew, call, wait>> /\ calm' = {} /\ token' \in {token, 0}
    BY <1>1 DEF RotateSecret, Revoke, ResetElsewhere
  <2>2. TypeOK
    BY DEF IInv
  <2>e. epoch' \in Nat \ {0}
    <3>1. epoch' \in {epoch, epoch + 1}
      BY <1>1 DEF RotateSecret, Revoke, ResetElsewhere
    <3>2. QED
      BY <2>2, <3>1 DEF TypeOK
  <2>r. revoked' \in BOOLEAN
    <3>1. revoked' = revoked \/ revoked' = TRUE
      BY <1>1 DEF RotateSecret, Revoke, ResetElsewhere
    <3>2. QED
      BY <2>2, <3>1 DEF TypeOK
  <2>t. TypeOK'
    BY <2>1, <2>2, <2>e, <2>r DEF TypeOK
  <2>3. NoLostWaiter' /\ NothingInVain' /\ Batch'
    BY <2>1 DEF IInv, NoLostWaiter, NothingInVain, Batch
  <2>4. QED
    BY <2>t, <2>3 DEF IInv
<1>2. CASE Tick
  <2>1. TypeOK' /\ UNCHANGED <<epoch, revoked, token, reg, renew, call, calm>> /\ wait # 0
    BY <1>2, WaitAssumption DEF IInv, TypeOK, Tick
  <2>2. calm = {} \/ revoked
    BY <2>1 DEF IInv, Batch, Undisturbed
  <2>3. NoLostWaiter' /\ NothingInVain' /\ Batch'
    BY <2>1, <2>2 DEF IInv, NoLostWaiter, NothingInVain, Batch
  <2>4. QED
    BY <2>1, <2>3 DEF IInv
<1>3. CASE UNCHANGED vars
  BY <1>3 DEF vars, IInv, TypeOK, NoLostWaiter, NothingInVain, Batch, Renewing, Undisturbed, Hopeful, InFlight
<1>4. QED
  BY <1>1, <1>2, <1>3

-----------------------------------------------------------------------------
(* The theorems.                                                           *)

LEMMA InitIInv == Init => IInv
<1> SUFFICES ASSUME Init
             PROVE  IInv
  OBVIOUS
<1>1. TypeOK
  <2>1. call \in [Calls -> CallStates]
    BY DEF Init, CallStates
  <2>2. reg \in [at : {"idle", "asked", "reading", "storing"}, owner : Calls \cup {Nobody}, got : Nat]
    BY DEF Init
  <2>r. revoked \in BOOLEAN
    BY DEF Init
  <2>3. /\ epoch \in Nat \ {0} /\ token \in Nat
        /\ renew \in {"idle", "reset", "ensure", "registering", "linking", "reading"}
        /\ wait \in 0..MaxWait /\ calm \in SUBSET Calls
    BY WaitAssumption DEF Init
  <2>4. QED
    BY <2>1, <2>2, <2>3, <2>r DEF TypeOK
<1>2. NoLostWaiter /\ NothingInVain /\ Batch
  BY DEF Init, NoLostWaiter, NothingInVain, Batch
<1>3. QED
  BY <1>1, <1>2 DEF IInv

LEMMA Invariance == Spec => []IInv
<1>1. IInv /\ [Next]_vars => IInv'
  BY CompleteStep, SendStep, AcceptedStep, RejectedStep, NotFoundStep, TroubleStep, RegisteredStep,
     ReadingStep, StoreTokenStep, RenewBeginStep, RenewDoneStep, AbortStep, RegistrationFailsStep, OutsideStep
  DEF Next, Progress, CallStep
<1>2. QED
  BY <1>1, InitIInv, PTL DEF Spec

\* Every variable keeps its type; a pause is never longer than the longest Retry-After.
THEOREM TypeCorrect == Spec => []TypeOK
<1>1. IInv => TypeOK
  BY DEF IInv
<1>2. QED
  BY <1>1, Invariance, PTL

\* Calls that wait for the registration or the renewal have one in progress.
THEOREM NoLostWaiterHolds == Spec => []NoLostWaiter
<1>1. IInv => NoLostWaiter
  BY DEF IInv
<1>2. QED
  BY <1>1, Invariance, PTL

\* After a batch of calls that nothing outside disturbed, the stored token is valid and
\* one call of the batch was answered.
THEOREM RecoversHolds == Spec => []Recovers
<1>1. ASSUME IInv
      PROVE  Recovers
  <2> SUFFICES ASSUME Quiet, calm # {}, ~revoked
               PROVE  token = epoch /\ \E k \in calm : call[k].result = "answer"
    BY DEF Recovers
  <2>1. Undisturbed /\ calm \in SUBSET Calls
    BY <1>1 DEF IInv, Batch, TypeOK
  <2>2. PICK k \in calm : Hopeful(k)
    BY <1>1 DEF IInv, Batch
  <2>3. call[k].at = "done"
    BY <2>1 DEF Quiet, InFlight, Undisturbed
  <2>4. call[k].result = "answer"
    BY <2>2, <2>3 DEF Hopeful, InFlight
  <2>5. token = epoch
    BY <2>1, <2>4 DEF Undisturbed, Quiet
  <2>6. QED
    BY <2>4, <2>5
<1>2. IInv => Recovers
  BY <1>1
<1>3. QED
  BY <1>2, Invariance, PTL

================================================================================
