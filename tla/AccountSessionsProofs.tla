------------------------ MODULE AccountSessionsProofs ------------------------
(***************************************************************************)
(* Machine-checked proofs about AccountSessions, for any addresses,        *)
(* invites, codes, tokens and handlers in flight, in every registration    *)
(* mode, whether or not handlers stop half-way.                            *)
(***************************************************************************)
EXTENDS AccountSessions, TLAPS

-----------------------------------------------------------------------------
(* The inductive invariant.                                                *)

\* What a handler knows at each of its steps.
HandlersOK ==
    \A k \in Tasks :
        /\ task[k].at \in {"create", "code", "mail", "session"} => task[k].email \in Emails
        /\ task[k].at = "code" => task[k].email \in registered
        /\ task[k].at = "mail" =>
             /\ task[k].code \in Codes /\ code[task[k].code].state # "none"
             /\ code[task[k].code].email = task[k].email
        /\ task[k].at = "session" =>
             /\ task[k].code \in mailed /\ code[task[k].code].email = task[k].email
        /\ task[k].at = "rotate" => task[k].token \in Tokens /\ session[task[k].token].state # "none"
        /\ task[k].at = "reply" => task[k].token \in Tokens /\ session[task[k].token].state # "none"

\* Only codes that exist are delivered, and only tokens that exist arrive.
DeliveredExist ==
    /\ \A c \in mailed : code[c].state # "none"
    /\ \A t \in received : session[t].state # "none"

\* An invite that can still be used has admitted nobody.
OpenAdmitsNone == \A i \in Invites : invite[i] # "over" => admittedBy[i] = {}

\* A verified code signs in once: while it can be consumed nothing has come of it,
\* and then one handler at most is about to open its session.
CodeOpensOnce ==
    /\ \A c \in Codes : code[c].state # "over" =>
         /\ SessionsOf(c) = {}
         /\ \A k \in Tasks : task[k].at = "session" => task[k].code # c
    /\ \A k \in Tasks, c \in Codes :
         task[k].at = "session" /\ task[k].code = c => SessionsOf(c) = {}
    /\ \A j, k \in Tasks :
         task[j].at = "session" /\ task[k].at = "session" /\ task[j].code = task[k].code => j = k

\* A sign-in has at most one token that can be exchanged.
OneLive ==
    \A s, t \in Tokens :
        session[s].state = "live" /\ session[t].state = "live" /\ session[s].code = session[t].code
            => s = t

IInv ==
    /\ TypeOK /\ HandlersOK /\ DeliveredExist /\ OpenAdmitsNone /\ CodeOpensOnce /\ OneLive
    /\ InviteAdmitsOne /\ MailboxOwnsSession /\ RegisteredIsMailed

-----------------------------------------------------------------------------
(* Shapes of the updates.                                                  *)

TaskType == [at : Steps, email : Emails \cup {None}, invite : Invites \cup {None},
             code : Codes \cup {None}, token : Tokens \cup {None}]

CodeType == [state : {"none", "open", "over"}, email : registered \cup {None}]

SessionType == [state : {"none", "live", "over"}, user : registered \cup {None},
                code : Codes \cup {None}]

\* The other handlers are where they were.
Others(k) == \A j \in Tasks : j # k => task'[j] = task[j]

LEMMA GoToShape ==
  ASSUME TypeOK, NEW k \in Tasks, NEW step \in Steps, GoTo(k, step)
  PROVE  /\ task' \in [Tasks -> TaskType] /\ Others(k)
         /\ task'[k].at = step /\ task'[k].email = task[k].email
         /\ task'[k].code = task[k].code /\ task'[k].token = task[k].token
BY DEF TypeOK, GoTo, TaskType, Others

LEMMA NewTaskShape == NewTask \in TaskType
BY DEF NewTask, TaskType, Steps

\* Rows of sessions stay, and at most cease to be live.
SessionsStay ==
    /\ session' \in [Tokens -> SessionType]
    /\ \A t \in Tokens : /\ session'[t].user = session[t].user /\ session'[t].code = session[t].code
                         /\ session'[t].state = "none" <=> session[t].state = "none"
                         /\ session'[t].state = "live" => session[t].state = "live"

LEMMA RevokeStays ==
  ASSUME TypeOK, NEW t \in Tokens, session' = RevokeSessionByTokenHash(t) \/ UNCHANGED session
  PROVE  SessionsStay
BY SMTT(60) DEF TypeOK, RevokeSessionByTokenHash, SessionsStay, SessionType

LEMMA StayKeeps ==
  ASSUME IInv, SessionsStay, UNCHANGED <<registered, code, mailed, received>>
  PROVE  /\ DeliveredExist' /\ OneLive' /\ MailboxOwnsSession'
         /\ \A c \in Codes : SessionsOf(c)' = SessionsOf(c)
<1>1. DeliveredExist' /\ OneLive'
  BY DEF IInv, SessionsStay, DeliveredExist, OneLive, TypeOK
<1>2. MailboxOwnsSession'
  BY DEF IInv, SessionsStay, MailboxOwnsSession
<1>3. \A c \in Codes : SessionsOf(c)' = SessionsOf(c)
  BY DEF SessionsStay, SessionsOf
<1>4. QED
  BY <1>1, <1>2, <1>3

\* A step that changes no code, delivery or registration, may end sessions, and leaves
\* handler k where what handlers know holds of it and no session is about to open.
LEMMA OnlyTask ==
  ASSUME IInv, NEW k \in Tasks, task' \in [Tasks -> TaskType], Others(k),
         UNCHANGED <<registered, invite, code, mailed, received, admittedBy>>, SessionsStay,
         task[k].at \notin {"code", "mail"} \/ (task'[k].email = task[k].email /\ task'[k].at = "lost"),
         task'[k].at \notin {"mail", "session"},
         task'[k].at \in {"create", "code"} => task'[k].email \in Emails,
         task'[k].at = "code" => task'[k].email \in registered,
         task'[k].at \in {"rotate", "reply"} =>
           task'[k].token \in Tokens /\ session[task'[k].token].state # "none",
         task[k].at = "lost" => task'[k] = task[k]
  PROVE  IInv'
<1> USE DEF Others
<1>1. TypeOK'
  BY DEF IInv, TypeOK, TaskType, SessionsStay, SessionType
<1>2. HandlersOK'
  BY DEF IInv, HandlersOK, SessionsStay
<1>3. DeliveredExist' /\ OneLive' /\ MailboxOwnsSession' /\ OpenAdmitsNone' /\ InviteAdmitsOne'
  BY StayKeeps DEF IInv, OpenAdmitsNone, InviteAdmitsOne
<1>4. CodeOpensOnce'
  <2>1. \A j \in Tasks : task'[j].at = "session" => task'[j] = task[j] /\ task[j].code \in Codes
    BY DEF IInv, TypeOK, HandlersOK
  <2>2. QED
    BY SMTT(60), <2>1, StayKeeps DEF IInv, CodeOpensOnce
<1>5. RegisteredIsMailed'
  <2> SUFFICES ASSUME NEW i \in Invites \cup {None}, NEW e \in admittedBy[i]
               PROVE  \/ \E c \in mailed : code[c].email = e
                      \/ \E j \in Tasks : task'[j].email = e /\ task'[j].at \in {"code", "mail", "lost"}
    BY DEF RegisteredIsMailed
  <2>1. CASE \E c \in mailed : code[c].email = e
    BY <2>1
  <2>2. CASE \E j \in Tasks : task[j].email = e /\ task[j].at \in {"code", "mail", "lost"}
    BY <2>2
  <2>3. QED
    BY <2>1, <2>2 DEF IInv, RegisteredIsMailed
<1>6. QED
  BY <1>1, <1>2, <1>3, <1>4, <1>5 DEF IInv

-----------------------------------------------------------------------------
(* Administration and time.                                                *)

LEMMA EnvironmentStep ==
  ASSUME IInv, Environment
  PROVE  IInv'
<1> USE DEF IInv
<1>1. ASSUME NEW i \in Invites, CreateInvite(i) \/ ExpireInvite(i)
      PROVE  IInv'
  <2>1. /\ invite' \in [Invites -> {"none", "open", "over"}]
        /\ \A j \in Invites : invite'[j] # "over" => invite[j] # "over"
        /\ UNCHANGED <<registered, code, session, task, mailed, received, admittedBy>>
    BY <1>1 DEF CreateInvite, ExpireInvite, TypeOK
  <2>2. TypeOK' /\ OpenAdmitsNone'
    BY <2>1 DEF TypeOK, OpenAdmitsNone
  <2>3. HandlersOK' /\ DeliveredExist' /\ CodeOpensOnce' /\ OneLive'
    BY <2>1 DEF HandlersOK, DeliveredExist, CodeOpensOnce, SessionsOf, OneLive
  <2>4. InviteAdmitsOne' /\ MailboxOwnsSession' /\ RegisteredIsMailed'
    BY <2>1 DEF InviteAdmitsOne, MailboxOwnsSession, RegisteredIsMailed
  <2>5. QED
    BY <2>2, <2>3, <2>4
<1>2. ASSUME NEW c \in Codes, ExpireCode(c)
      PROVE  IInv'
  <2>1. /\ code' \in [Codes -> CodeType]
        /\ \A d \in Codes : /\ code'[d].email = code[d].email
                            /\ code'[d].state # "over" => code[d].state # "over"
                            /\ code[d].state # "none" => code'[d].state # "none"
        /\ UNCHANGED <<registered, invite, session, task, mailed, received, admittedBy>>
    BY <1>2 DEF ExpireCode, TypeOK, CodeType
  <2>2. TypeOK'
    BY <2>1 DEF TypeOK, CodeType
  <2>3. HandlersOK' /\ DeliveredExist'
    BY <2>1 DEF HandlersOK, DeliveredExist, TypeOK
  <2>4. CodeOpensOnce' /\ OneLive' /\ OpenAdmitsNone'
    BY <2>1 DEF CodeOpensOnce, SessionsOf, OneLive, OpenAdmitsNone
  <2>5. InviteAdmitsOne' /\ MailboxOwnsSession' /\ RegisteredIsMailed'
    BY SMTT(60), <2>1 DEF InviteAdmitsOne, MailboxOwnsSession, RegisteredIsMailed, TypeOK
  <2>6. QED
    BY <2>2, <2>3, <2>4, <2>5
<1>3. ASSUME NEW t \in Tokens, ExpireSession(t)
      PROVE  IInv'
  <2>1. /\ session' = RevokeSessionByTokenHash(t)
        /\ UNCHANGED <<registered, invite, code, task, mailed, received, admittedBy>>
    BY <1>3 DEF ExpireSession, RevokeSessionByTokenHash
  <2>2. SessionsStay
    BY <2>1, RevokeStays
  <2>3. TypeOK' /\ HandlersOK'
    BY <2>1, <2>2 DEF TypeOK, SessionsStay, SessionType, HandlersOK
  <2>4. DeliveredExist' /\ OneLive' /\ MailboxOwnsSession'
    BY <2>1, <2>2, StayKeeps
  <2>5. CodeOpensOnce'
    <3>1. \A k \in Tasks : task[k].at = "session" => task[k].code \in Codes
      BY DEF HandlersOK, TypeOK
    <3>2. QED
      BY <2>1, <2>2, <3>1, StayKeeps DEF CodeOpensOnce
  <2>6. OpenAdmitsNone' /\ InviteAdmitsOne' /\ RegisteredIsMailed'
    BY <2>1 DEF OpenAdmitsNone, InviteAdmitsOne, RegisteredIsMailed
  <2>7. QED
    BY <2>3, <2>4, <2>5, <2>6
<1>4. QED
  BY <1>1, <1>2, <1>3 DEF Environment

-----------------------------------------------------------------------------
(* Steps that move one handler and nothing else that matters.              *)

LEMMA RequestMagicCodeStep ==
  ASSUME IInv, NEW k \in Tasks, NEW e \in Emails, NEW i \in Invites \cup {None},
         RequestMagicCode(k, e, i)
  PROVE  IInv'
<1> DEFINE v == [NewTask EXCEPT !.at = AfterLookup(e, i), !.email = e,
                                !.invite = IF Registration = "invite" THEN i ELSE None]
<1>1. AfterLookup(e, i) \in {"code", "create", "done"}
      /\ (AfterLookup(e, i) = "code" => e \in registered)
  BY ModeAssumption DEF AfterLookup
<1>2. v \in TaskType /\ v.email = e /\ v.at = AfterLookup(e, i)
  BY <1>1, NewTaskShape DEF TaskType, Steps
<1>3. /\ task' = [task EXCEPT ![k] = v] /\ task[k].at = "new"
      /\ UNCHANGED <<registered, invite, code, session, mailed, received, admittedBy>>
  BY DEF RequestMagicCode
<1> HIDE DEF v
<1>4. task' \in [Tasks -> TaskType] /\ task'[k] = v /\ Others(k)
  BY <1>2, <1>3 DEF IInv, TypeOK, TaskType, Others
<1>5. SessionsStay
  BY <1>3, RevokeStays DEF IInv, TypeOK, SessionsStay, SessionType
<1>6. QED
  BY <1>1, <1>2, <1>3, <1>4, <1>5, OnlyTask

LEMMA RefreshStep ==
  ASSUME IInv, NEW k \in Tasks, NEW t \in Tokens, Refresh(k, t)
  PROVE  IInv'
<1> DEFINE v == [NewTask EXCEPT !.at = IF FindActiveSession(t) THEN "rotate" ELSE "done",
                                !.token = t]
<1>1. /\ v \in TaskType /\ v.token = t /\ v.at \in {"rotate", "done"}
      /\ v.at = "rotate" => session[t].state # "none"
  BY NewTaskShape DEF TaskType, Steps, FindActiveSession
<1>2. /\ task' = [task EXCEPT ![k] = v] /\ task[k].at = "new"
      /\ UNCHANGED <<registered, invite, code, session, mailed, received, admittedBy>>
  BY DEF Refresh
<1> HIDE DEF v
<1>3. task' \in [Tasks -> TaskType] /\ task'[k] = v /\ Others(k)
  BY <1>1, <1>2 DEF IInv, TypeOK, TaskType, Others
<1>4. SessionsStay
  BY <1>2 DEF IInv, TypeOK, SessionsStay, SessionType
<1>5. QED
  BY <1>1, <1>2, <1>3, <1>4, OnlyTask

LEMMA LogoutStep ==
  ASSUME IInv, NEW k \in Tasks, NEW t \in Tokens, Logout(k, t)
  PROVE  SessionsStay /\ IInv'
<1> DEFINE v == [NewTask EXCEPT !.at = "done", !.token = t]
<1>1. v \in TaskType /\ v.at = "done"
  BY NewTaskShape DEF TaskType, Steps
<1>2. /\ task' = [task EXCEPT ![k] = v] /\ task[k].at = "new"
      /\ session' = RevokeSessionByTokenHash(t)
      /\ UNCHANGED <<registered, invite, code, mailed, received, admittedBy>>
  BY DEF Logout
<1> HIDE DEF v
<1>3. task' \in [Tasks -> TaskType] /\ task'[k] = v /\ Others(k)
  BY <1>1, <1>2 DEF IInv, TypeOK, TaskType, Others
<1>4. SessionsStay
  BY <1>2, RevokeStays DEF IInv
<1>5. QED
  BY <1>1, <1>2, <1>3, <1>4, OnlyTask

LEMMA AbortStep ==
  ASSUME IInv, NEW k \in Tasks, Abort(k)
  PROVE  IInv'
<1>1. /\ GoTo(k, "lost") /\ task[k].at # "lost"
      /\ UNCHANGED <<registered, invite, code, session, mailed, received, admittedBy>>
  BY DEF Abort
<1>2. /\ task' \in [Tasks -> TaskType] /\ Others(k)
      /\ task'[k].at = "lost" /\ task'[k].email = task[k].email
  BY <1>1, GoToShape DEF IInv, Steps
<1>3. SessionsStay
  BY <1>1 DEF IInv, TypeOK, SessionsStay, SessionType
<1>4. QED
  BY <1>1, <1>2, <1>3, OnlyTask

\* The pair reaches the client.
LEMMA ReplyStep ==
  ASSUME IInv, NEW k \in Tasks, Reply(k)
  PROVE  IInv'
<1>1. /\ task[k].at = "reply" /\ task[k].token \in Tokens /\ session[task[k].token].state # "none"
      /\ received' = received \cup {task[k].token}
      /\ UNCHANGED <<registered, invite, code, session, mailed, admittedBy>>
  BY DEF Reply, IInv, HandlersOK
<1>2. task' \in [Tasks -> TaskType] /\ Others(k) /\ task'[k].at = "done"
  BY GoToShape DEF Reply, IInv, Steps
<1>3. TypeOK'
  BY <1>1, <1>2 DEF IInv, TypeOK, TaskType
<1>4. HandlersOK' /\ DeliveredExist'
  BY <1>1, <1>2 DEF IInv, HandlersOK, DeliveredExist, Others
<1>5. OpenAdmitsNone' /\ OneLive' /\ InviteAdmitsOne' /\ MailboxOwnsSession'
  BY <1>1 DEF IInv, OpenAdmitsNone, OneLive, InviteAdmitsOne, MailboxOwnsSession
<1>6. CodeOpensOnce'
  BY <1>1, <1>2 DEF IInv, CodeOpensOnce, SessionsOf, Others
<1>7. RegisteredIsMailed'
  BY <1>1, <1>2 DEF IInv, RegisteredIsMailed, Others
<1>8. QED
  BY <1>3, <1>4, <1>5, <1>6, <1>7 DEF IInv

-----------------------------------------------------------------------------
(* Registration and codes.                                                 *)

\* Of concurrent registrations of an address, and of concurrent uses of an invite,
\* one succeeds.
LEMMA CreateUserStep ==
  ASSUME IInv, NEW k \in Tasks, CreateUser(k)
  PROVE  IInv'
<1> DEFINE e == task[k].email
           i == task[k].invite
           ok == Admits(i, e) /\ e \notin registered
<1>1. /\ task[k].at = "create" /\ e \in Emails /\ i \in Invites \cup {None}
      /\ GoTo(k, AfterCreate(ok))
      /\ registered' = IF ok THEN registered \cup {e} ELSE registered
      /\ invite' = IF ok /\ i # None THEN [invite EXCEPT ![i] = "over"] ELSE invite
      /\ admittedBy' = IF ok THEN [admittedBy EXCEPT ![i] = @ \cup {e}] ELSE admittedBy
      /\ UNCHANGED <<code, session, mailed, received>>
  BY DEF CreateUser, IInv, HandlersOK, TypeOK
<1>2. AfterCreate(ok) \in Steps
  BY DEF AfterCreate, Steps
<1>3. /\ task' \in [Tasks -> TaskType] /\ Others(k)
      /\ task'[k].at = AfterCreate(ok) /\ task'[k].email = e
  BY <1>1, <1>2, GoToShape DEF IInv
<1>4. task'[k].at \in {"code", "done"} /\ (task'[k].at = "code" <=> ok)
  BY <1>3 DEF AfterCreate
<1> HIDE DEF ok
<1>5. registered \subseteq registered' /\ registered' \subseteq Emails /\ (ok => e \in registered')
  BY <1>1 DEF IInv, TypeOK
<1>6. /\ invite' \in [Invites -> {"none", "open", "over"}]
      /\ \A j \in Invites : invite'[j] = IF ok /\ j = i THEN "over" ELSE invite[j]
  BY <1>1, NoneAssumption DEF IInv, TypeOK
<1>7. /\ admittedBy' \in [Invites \cup {None} -> SUBSET Emails]
      /\ \A j \in Invites \cup {None} :
           admittedBy'[j] = IF ok /\ j = i THEN admittedBy[j] \cup {e} ELSE admittedBy[j]
  BY <1>1 DEF IInv, TypeOK
<1> HIDE DEF i, e
<1>8. TypeOK'
  BY <1>1, <1>3, <1>5, <1>6, <1>7 DEF IInv, TypeOK, TaskType
<1>9. HandlersOK' /\ DeliveredExist'
  BY <1>1, <1>3, <1>4, <1>5 DEF IInv, HandlersOK, DeliveredExist, Others
<1>10. OpenAdmitsNone'
  BY <1>6, <1>7 DEF IInv, OpenAdmitsNone
<1>11. InviteAdmitsOne'
  <2>1. ASSUME NEW j \in Invites, ok, j = i
        PROVE  admittedBy[j] = {} /\ InviteEmail[j] \in {None, e}
    BY <2>1, NoneAssumption DEF ok, Admits, i, e, IInv, OpenAdmitsNone
  <2> SUFFICES ASSUME NEW j \in Invites, NEW a \in admittedBy'[j], NEW b \in admittedBy'[j]
               PROVE  a = b /\ InviteEmail[j] \in {None, a}
    BY DEF InviteAdmitsOne
  <2>2. CASE ok /\ j = i
    <3>1. admittedBy'[j] = admittedBy[j] \cup {e}
      BY <1>7, <2>2
    <3>2. admittedBy[j] = {} /\ InviteEmail[j] \in {None, e}
      BY <2>1, <2>2
    <3>3. a = e /\ b = e
      BY <3>1, <3>2
    <3>4. QED
      BY <3>2, <3>3
  <2>3. CASE ~(ok /\ j = i)
    <3>1. a \in admittedBy[j] /\ b \in admittedBy[j] /\ a \in Emails /\ b \in Emails
      BY <1>7, <2>3 DEF IInv, TypeOK
    <3>2. {a, b} \subseteq admittedBy[j]
      BY <3>1
    <3>3. a = b /\ InviteEmail[j] \in {None, a}
      BY <3>1, <3>2 DEF IInv, InviteAdmitsOne
    <3>4. QED
      BY <3>3
  <2>4. QED
    BY <2>2, <2>3
<1>12. OneLive' /\ MailboxOwnsSession'
  BY <1>1, <1>5 DEF IInv, OneLive, MailboxOwnsSession
<1>13. CodeOpensOnce'
  BY <1>1, <1>3, <1>4 DEF IInv, CodeOpensOnce, SessionsOf, Others
<1>14. RegisteredIsMailed'
  <2> SUFFICES ASSUME NEW j \in Invites \cup {None}, NEW f \in admittedBy'[j]
               PROVE  \/ \E c \in mailed' : code'[c].email = f
                      \/ \E h \in Tasks : task'[h].email = f /\ task'[h].at \in {"code", "mail", "lost"}
    BY DEF RegisteredIsMailed
  <2>1. CASE ok /\ f = e
    BY <1>3, <1>4, <2>1
  <2>2. CASE f \in admittedBy[j]
    <3>1. CASE \E c \in mailed : code[c].email = f
      BY <1>1, <3>1
    <3>2. CASE \E h \in Tasks : task[h].email = f /\ task[h].at \in {"code", "mail", "lost"}
      BY <1>1, <1>3, <3>2 DEF Others
    <3>3. QED
      BY <2>2, <3>1, <3>2 DEF IInv, RegisteredIsMailed
  <2>3. QED
    BY <1>7, <2>1, <2>2
<1>15. QED
  BY <1>8, <1>9, <1>10, <1>11, <1>12, <1>13, <1>14 DEF IInv

LEMMA CreateMagicCodeStep ==
  ASSUME IInv, NEW k \in Tasks, NEW c \in Codes, CreateMagicCode(k, c)
  PROVE  IInv'
<1> DEFINE e == task[k].email
<1>1. /\ task[k].at = "code" /\ code[c].state = "none" /\ e \in registered
      /\ code' = [code EXCEPT ![c] = [state |-> "open", email |-> e]]
      /\ task' = [task EXCEPT ![k].at = "mail", ![k].code = c]
      /\ UNCHANGED <<registered, invite, session, mailed, received, admittedBy>>
  BY DEF CreateMagicCode, IInv, HandlersOK
<1>2. /\ task' \in [Tasks -> TaskType] /\ Others(k)
      /\ task'[k].at = "mail" /\ task'[k].code = c /\ task'[k].email = e
  BY ZenonT(60), <1>1 DEF IInv, TypeOK, TaskType, Others, Steps
<1> HIDE DEF e
<1>3. /\ code' \in [Codes -> CodeType]
      /\ code'[c].state = "open" /\ code'[c].email = e
      /\ \A d \in Codes : d # c => code'[d] = code[d]
  BY <1>1 DEF IInv, TypeOK, CodeType
<1>4. c \notin mailed
  BY <1>1 DEF IInv, DeliveredExist
<1>5. TypeOK'
  BY <1>1, <1>2, <1>3 DEF IInv, TypeOK, TaskType, CodeType
<1>6. HandlersOK' /\ DeliveredExist'
  BY <1>1, <1>2, <1>3, <1>4 DEF IInv, HandlersOK, DeliveredExist, Others, TypeOK
<1>7. OpenAdmitsNone' /\ OneLive' /\ InviteAdmitsOne'
  BY <1>1 DEF IInv, OpenAdmitsNone, OneLive, InviteAdmitsOne
<1>8. MailboxOwnsSession'
  BY <1>1, <1>3, <1>4 DEF IInv, MailboxOwnsSession, TypeOK
<1>9. CodeOpensOnce'
  BY <1>1, <1>2, <1>3 DEF IInv, CodeOpensOnce, SessionsOf, Others
<1>10. RegisteredIsMailed'
  BY <1>1, <1>2, <1>3, <1>4 DEF IInv, RegisteredIsMailed, Others, TypeOK
<1>11. QED
  BY <1>5, <1>6, <1>7, <1>8, <1>9, <1>10 DEF IInv

LEMMA SendMagicCodeStep ==
  ASSUME IInv, NEW k \in Tasks, SendMagicCode(k)
  PROVE  IInv'
<1> DEFINE c == task[k].code
<1>1. /\ task[k].at = "mail" /\ c \in Codes /\ code[c].state # "none"
      /\ code[c].email = task[k].email
      /\ mailed' = mailed \cup {c}
      /\ UNCHANGED <<registered, invite, code, session, received, admittedBy>>
  BY DEF SendMagicCode, IInv, HandlersOK
<1>2. task' \in [Tasks -> TaskType] /\ Others(k) /\ task'[k].at = "done"
  BY GoToShape DEF SendMagicCode, IInv, Steps
<1> HIDE DEF c
<1>3. TypeOK'
  BY <1>1, <1>2 DEF IInv, TypeOK, TaskType
<1>4. HandlersOK' /\ DeliveredExist'
  BY <1>1, <1>2 DEF IInv, HandlersOK, DeliveredExist, Others
<1>5. OpenAdmitsNone' /\ OneLive' /\ InviteAdmitsOne' /\ MailboxOwnsSession'
  BY <1>1 DEF IInv, OpenAdmitsNone, OneLive, InviteAdmitsOne, MailboxOwnsSession
<1>6. CodeOpensOnce'
  BY <1>1, <1>2 DEF IInv, CodeOpensOnce, SessionsOf, Others
<1>7. RegisteredIsMailed'
  BY <1>1, <1>2 DEF IInv, RegisteredIsMailed, Others
<1>8. QED
  BY <1>3, <1>4, <1>5, <1>6, <1>7 DEF IInv

-----------------------------------------------------------------------------
(* Sessions.                                                               *)

\* A code is consumed by one verification, whatever the address it names.
LEMMA ConsumeMagicCodeStep ==
  ASSUME IInv, NEW k \in Tasks, NEW c \in Codes, NEW e \in Emails, ConsumeMagicCode(k, c, e)
  PROVE  IInv'
<1> DEFINE verified == Consumable(c) /\ Bound(c, e) # None
           v == IF verified
                THEN [NewTask EXCEPT !.at = "session", !.email = Bound(c, e), !.code = c]
                ELSE [NewTask EXCEPT !.at = "done"]
<1>1. /\ task[k].at = "new" /\ c \in mailed
      /\ code' = IF Consumable(c) THEN [code EXCEPT ![c].state = "over"] ELSE code
      /\ task' = [task EXCEPT ![k] = v]
      /\ UNCHANGED <<registered, invite, session, mailed, received, admittedBy>>
  BY DEF ConsumeMagicCode
<1>2. /\ v \in TaskType
      /\ verified => v.at = "session" /\ v.email = e /\ v.code = c /\ code[c].email = e
                     /\ code[c].state = "open"
      /\ ~verified => v.at = "done"
  BY NewTaskShape, NoneAssumption DEF TaskType, Steps, Bound, Consumable
<1> HIDE DEF v, verified
<1>3. task' \in [Tasks -> TaskType] /\ Others(k) /\ task'[k] = v
  BY <1>1, <1>2 DEF IInv, TypeOK, TaskType, Others
<1>4. /\ code' \in [Codes -> CodeType]
      /\ \A d \in Codes : /\ code'[d].email = code[d].email
                          /\ code'[d].state = "none" <=> code[d].state = "none"
                          /\ code'[d].state # "over" => code[d].state # "over"
      /\ verified => code'[c].state = "over"
  BY <1>1, <1>2 DEF IInv, TypeOK, CodeType, Consumable
<1>5. TypeOK'
  BY <1>1, <1>3, <1>4 DEF IInv, TypeOK, TaskType, CodeType
<1>6. HandlersOK' /\ DeliveredExist'
  BY <1>1, <1>2, <1>3, <1>4 DEF IInv, HandlersOK, DeliveredExist, Others, TypeOK
<1>7. OpenAdmitsNone' /\ OneLive' /\ InviteAdmitsOne'
  BY <1>1 DEF IInv, OpenAdmitsNone, OneLive, InviteAdmitsOne
<1>8. MailboxOwnsSession'
  BY <1>1, <1>4 DEF IInv, MailboxOwnsSession, TypeOK
<1>9. CodeOpensOnce'
  <2>1. verified => SessionsOf(c) = {} /\ \A j \in Tasks : task[j].at = "session" => task[j].code # c
    BY <1>2 DEF IInv, CodeOpensOnce
  <2>2. \A d \in Codes : SessionsOf(d)' = SessionsOf(d)
    BY <1>1 DEF SessionsOf
  <2>3. \A j \in Tasks : task'[j].at = "session" =>
          \/ j # k /\ task'[j] = task[j] /\ task[j].code \in Codes
          \/ j = k /\ verified /\ task'[j].code = c
    BY <1>2, <1>3 DEF Others, IInv, HandlersOK, TypeOK
  <2>4. ASSUME NEW d \in Codes, code'[d].state # "over"
        PROVE  /\ SessionsOf(d)' = {}
               /\ \A j \in Tasks : task'[j].at = "session" => task'[j].code # d
    BY <1>4, <2>2, <2>3, <2>4 DEF IInv, CodeOpensOnce
  <2>5. \A j \in Tasks, d \in Codes :
          task'[j].at = "session" /\ task'[j].code = d => SessionsOf(d)' = {}
    BY <1>1, <2>1, <2>2, <2>3 DEF IInv, CodeOpensOnce, DeliveredExist, TypeOK
  <2>6. ASSUME NEW i \in Tasks, NEW j \in Tasks,
               task'[i].at = "session", task'[j].at = "session", task'[i].code = task'[j].code
        PROVE  i = j
    <3>1. CASE i = k \/ j = k
      BY <2>1, <2>3, <2>6, <3>1
    <3>2. CASE i # k /\ j # k
      BY <2>3, <2>6, <3>2 DEF IInv, CodeOpensOnce
    <3>3. QED
      BY <3>1, <3>2
  <2>7. QED
    BY <2>4, <2>5, <2>6 DEF CodeOpensOnce
<1>10. RegisteredIsMailed'
  BY <1>1, <1>3, <1>4 DEF IInv, RegisteredIsMailed, Others, TypeOK
<1>11. QED
  BY <1>5, <1>6, <1>7, <1>8, <1>9, <1>10 DEF IInv

\* A row is inserted for a fresh token: what the sessions of the codes become.
LEMMA RowShape ==
  ASSUME IInv, NEW n \in Tokens, session[n].state = "none",
         session' \in [Tokens -> SessionType], session'[n].state = "live",
         session'[n].code \in Codes,
         \A t \in Tokens : t # n =>
            /\ session'[t].user = session[t].user /\ session'[t].code = session[t].code
            /\ session'[t].state = "none" <=> session[t].state = "none"
            /\ session'[t].state = "live" => session[t].state = "live"
  PROVE  \A c \in Codes : SessionsOf(c)' = IF c = session'[n].code THEN SessionsOf(c) \cup {n}
                                           ELSE SessionsOf(c)
BY DEF SessionsOf

\* The handler that consumed a code opens the one session of its sign-in.
LEMMA CreateSessionStep ==
  ASSUME IInv, NEW k \in Tasks, NEW n \in Tokens, CreateSession(k, n)
  PROVE  IInv'
<1> DEFINE c == task[k].code
<1>1. /\ task[k].at = "session" /\ c \in mailed /\ c \in Codes /\ code[c].email = task[k].email
      /\ task[k].email \in registered /\ session[n].state = "none" /\ SessionsOf(c) = {}
      /\ code[c].state = "over"
      /\ session' = [session EXCEPT ![n] = SessionRow(k)]
      /\ task' = [task EXCEPT ![k].at = "reply", ![k].token = n]
      /\ UNCHANGED <<registered, invite, code, mailed, received, admittedBy>>
  BY DEF CreateSession, IInv, HandlersOK, CodeOpensOnce, TypeOK
<1>2. task' \in [Tasks -> TaskType] /\ Others(k) /\ task'[k].at = "reply" /\ task'[k].token = n
  BY ZenonT(60), <1>1 DEF IInv, TypeOK, TaskType, Others, Steps
<1>3. /\ session' \in [Tokens -> SessionType]
      /\ session'[n].state = "live" /\ session'[n].code = c /\ session'[n].user = task[k].email
      /\ \A t \in Tokens : t # n => session'[t] = session[t]
  BY <1>1 DEF IInv, TypeOK, SessionType, SessionRow
<1> HIDE DEF c
<1>4. \A d \in Codes : SessionsOf(d)' = IF d = c THEN SessionsOf(d) \cup {n} ELSE SessionsOf(d)
  BY <1>1, <1>3, RowShape
<1>5. TypeOK'
  BY <1>1, <1>2, <1>3 DEF IInv, TypeOK, TaskType, SessionType
<1>6. HandlersOK' /\ DeliveredExist'
  BY <1>1, <1>2, <1>3 DEF IInv, HandlersOK, DeliveredExist, Others, TypeOK
<1>7. OpenAdmitsNone' /\ InviteAdmitsOne'
  BY <1>1 DEF IInv, OpenAdmitsNone, InviteAdmitsOne
<1>8. MailboxOwnsSession'
  BY <1>1, <1>3 DEF IInv, MailboxOwnsSession
<1>9. CodeOpensOnce'
  <2>1. \A j \in Tasks : task'[j].at = "session" =>
          j # k /\ task'[j] = task[j] /\ task[j].at = "session" /\ task[j].code \in Codes
    BY <1>2 DEF Others, IInv, HandlersOK, TypeOK
  <2>2. \A j \in Tasks : j # k /\ task[j].at = "session" => task[j].code # c
    BY <1>1 DEF c, IInv, CodeOpensOnce
  <2>3. ASSUME NEW d \in Codes, code[d].state # "over"
        PROVE  /\ SessionsOf(d)' = {}
               /\ \A j \in Tasks : task'[j].at = "session" => task'[j].code # d
    BY ZenonT(60), <1>1, <1>4, <2>1, <2>3 DEF IInv, CodeOpensOnce
  <2>4. \A j \in Tasks, d \in Codes :
          task'[j].at = "session" /\ task'[j].code = d => SessionsOf(d)' = {}
    BY <1>4, <2>1, <2>2 DEF IInv, CodeOpensOnce
  <2>5. ASSUME NEW i \in Tasks, NEW j \in Tasks,
               task'[i].at = "session", task'[j].at = "session", task'[i].code = task'[j].code
        PROVE  i = j
    BY <2>1, <2>5 DEF IInv, CodeOpensOnce
  <2>6. QED
    BY <1>1, <2>3, <2>4, <2>5 DEF CodeOpensOnce
<1>10. OneLive'
  <2>1. \A t \in Tokens : session[t].state = "live" => session[t].code # c
    BY <1>1 DEF SessionsOf
  <2>2. QED
    BY <1>3, <2>1 DEF IInv, OneLive
<1>11. RegisteredIsMailed'
  BY <1>1, <1>2 DEF IInv, RegisteredIsMailed, Others
<1>12. QED
  BY <1>5, <1>6, <1>7, <1>8, <1>9, <1>10, <1>11 DEF IInv

\* The rows after a rotation.
LEMMA RotationShape ==
  ASSUME IInv, NEW k \in Tasks, NEW n \in Tokens, RotateSession(k, n), Rotates(task[k].token)
  PROVE  LET t == task[k].token IN
         /\ t \in Tokens /\ t # n /\ session[t].state = "live" /\ session[n].state = "none"
         /\ session[t].code \in mailed /\ session[t].code \in Codes
         /\ session' \in [Tokens -> SessionType]
         /\ session'[t].state = "over" /\ session'[t].user = session[t].user
         /\ session'[t].code = session[t].code
         /\ session'[n].state = "live" /\ session'[n].user = session[t].user
         /\ session'[n].code = session[t].code
         /\ \A s \in Tokens : s # n /\ s # t => session'[s] = session[s]
<1> DEFINE t == task[k].token
<1>1. /\ t \in Tokens /\ session[t].state = "live" /\ session[n].state = "none"
      /\ session' = [session EXCEPT ![t].state = "over", ![n] = Successor(t)]
  BY DEF RotateSession, Rotates, IInv, HandlersOK
<1> HIDE DEF t
<1>2. session[t].code \in mailed /\ session[t].code \in Codes
  BY <1>1 DEF IInv, MailboxOwnsSession, TypeOK
<1>3. /\ t # n
      /\ session' \in [Tokens -> SessionType]
      /\ session'[t].state = "over" /\ session'[t].user = session[t].user
      /\ session'[t].code = session[t].code
      /\ session'[n].state = "live" /\ session'[n].user = session[t].user
      /\ session'[n].code = session[t].code
      /\ \A s \in Tokens : s # n /\ s # t => session'[s] = session[s]
  BY <1>1 DEF IInv, TypeOK, SessionType, Successor
<1>4. QED
  BY <1>1, <1>2, <1>3 DEF t

LEMMA RotateSessionStep ==
  ASSUME IInv, NEW k \in Tasks, NEW n \in Tokens, RotateSession(k, n)
  PROVE  IInv'
<1> DEFINE t == task[k].token
<1>1. /\ task[k].at = "rotate" /\ t \in Tokens
      /\ UNCHANGED <<registered, invite, code, mailed, received, admittedBy>>
  BY DEF RotateSession, IInv, HandlersOK
<1>2. CASE ~Rotates(t)
  <2>1. GoTo(k, "done") /\ UNCHANGED session
    BY <1>2 DEF RotateSession
  <2>2. task' \in [Tasks -> TaskType] /\ Others(k) /\ task'[k].at = "done"
    BY <2>1, GoToShape DEF IInv, Steps
  <2>3. SessionsStay
    BY <2>1 DEF IInv, TypeOK, SessionsStay, SessionType
  <2>4. QED
    BY <1>1, <2>2, <2>3, OnlyTask
<1>3. CASE Rotates(t)
  <2>1. task' = [task EXCEPT ![k].at = "reply", ![k].token = n]
    BY <1>3 DEF RotateSession
  <2>2. task' \in [Tasks -> TaskType] /\ Others(k) /\ task'[k].at = "reply" /\ task'[k].token = n
    BY ZenonT(60), <2>1 DEF IInv, TypeOK, TaskType, Others, Steps
  <2>3. /\ t # n /\ session[t].state = "live" /\ session[n].state = "none"
        /\ session[t].code \in mailed /\ session[t].code \in Codes
        /\ session' \in [Tokens -> SessionType]
        /\ session'[t].state = "over" /\ session'[t].user = session[t].user
        /\ session'[t].code = session[t].code
        /\ session'[n].state = "live" /\ session'[n].user = session[t].user
        /\ session'[n].code = session[t].code
        /\ \A s \in Tokens : s # n /\ s # t => session'[s] = session[s]
    BY <1>3, RotationShape
  <2> HIDE DEF t
  <2>4. \A d \in Codes : SessionsOf(d)' = IF d = session[t].code THEN SessionsOf(d) \cup {n}
                                          ELSE SessionsOf(d)
    BY <1>1, <2>3, RowShape
  <2>5. TypeOK'
    BY <1>1, <2>2, <2>3 DEF IInv, TypeOK, TaskType, SessionType
  <2>6. HandlersOK' /\ DeliveredExist'
    <3>1. \A s \in Tokens : session[s].state # "none" => session'[s].state # "none"
      BY <1>1, <2>3
    <3>2. HandlersOK'
      BY <1>1, <2>2, <2>3, <3>1 DEF IInv, HandlersOK, Others
    <3>3. DeliveredExist'
      BY <1>1, <3>1 DEF IInv, DeliveredExist, TypeOK
    <3>4. QED
      BY <3>2, <3>3
  <2>7. OpenAdmitsNone' /\ InviteAdmitsOne'
    BY <1>1 DEF IInv, OpenAdmitsNone, InviteAdmitsOne
  <2>8. MailboxOwnsSession'
    BY <1>1, <2>3 DEF IInv, MailboxOwnsSession
  <2>9. OneLive'
    BY <1>1, <2>3 DEF IInv, OneLive
  <2>10. CodeOpensOnce'
    <3>1. \A j \in Tasks : task'[j].at = "session" =>
            j # k /\ task'[j] = task[j] /\ task[j].at = "session" /\ task[j].code \in Codes
      BY <2>2 DEF Others, IInv, HandlersOK, TypeOK
    <3>2. t \in SessionsOf(session[t].code)
      BY <1>1, <2>3 DEF SessionsOf
    <3>3. code[session[t].code].state = "over"
      BY <2>3, <3>2 DEF IInv, CodeOpensOnce
    <3>4. \A j \in Tasks : task[j].at = "session" => task[j].code # session[t].code
      BY <2>3, <3>2 DEF IInv, CodeOpensOnce
    <3>5. QED
      BY <1>1, <2>4, <3>1, <3>3, <3>4 DEF IInv, CodeOpensOnce
  <2>11. RegisteredIsMailed'
    BY <1>1, <2>2 DEF IInv, RegisteredIsMailed, Others
  <2>12. QED
    BY <2>5, <2>6, <2>7, <2>8, <2>9, <2>10, <2>11 DEF IInv
<1>4. QED
  BY <1>2, <1>3

-----------------------------------------------------------------------------
(* The invariant holds, and the properties with it.                        *)

LEMMA InitIInv == Init => IInv
<1> SUFFICES ASSUME Init
             PROVE  IInv
  OBVIOUS
<1>1. TypeOK
  BY DEF Init, TypeOK, NewTask, Steps
<1>2. HandlersOK /\ DeliveredExist /\ OpenAdmitsNone /\ OneLive
  BY DEF Init, HandlersOK, DeliveredExist, OpenAdmitsNone, OneLive, NewTask
<1>3. CodeOpensOnce
  BY DEF Init, CodeOpensOnce, SessionsOf, NewTask
<1>4. InviteAdmitsOne /\ MailboxOwnsSession /\ RegisteredIsMailed
  BY DEF Init, InviteAdmitsOne, MailboxOwnsSession, RegisteredIsMailed
<1>5. QED
  BY <1>1, <1>2, <1>3, <1>4 DEF IInv

LEMMA IdleIInv ==
  ASSUME IInv, UNCHANGED vars
  PROVE  IInv'
BY DEF IInv, vars, TypeOK, HandlersOK, DeliveredExist, OpenAdmitsNone, CodeOpensOnce,
       SessionsOf, OneLive, InviteAdmitsOne, MailboxOwnsSession, RegisteredIsMailed

LEMMA NextIInv ==
  ASSUME IInv, [Next]_vars
  PROVE  IInv'
<1>1. ASSUME NEW k \in Tasks, Arrival(k)
      PROVE  IInv'
  BY <1>1, RequestMagicCodeStep, ConsumeMagicCodeStep, RefreshStep, LogoutStep DEF Arrival
<1>2. ASSUME NEW k \in Tasks, TaskStep(k)
      PROVE  IInv'
  BY <1>2, CreateUserStep, CreateMagicCodeStep, SendMagicCodeStep, CreateSessionStep,
     RotateSessionStep, ReplyStep DEF TaskStep
<1>3. QED
  BY <1>1, <1>2, IdleIInv, EnvironmentStep, AbortStep DEF Next

LEMMA Invariance == Spec => []IInv
<1>1. IInv /\ [Next]_vars => IInv'
  BY NextIInv
<1>2. QED
  BY <1>1, InitIInv, PTL DEF Spec

\* Every variable keeps its type; codes and sessions belong to registered addresses
\* only, although looking an address up, registering it and issuing its code are
\* statements of their own.
THEOREM TypeCorrect == Spec => []TypeOK
<1>1. IInv => TypeOK
  BY DEF IInv
<1>2. QED
  BY <1>1, Invariance, PTL

\* However requests, retries and concurrent registrations interleave, an invite
\* registers one address at most, the one it was made out to (CreateUser locks the
\* invite and marks it in the transaction that inserts the user).
THEOREM InviteAdmitsOneHolds == Spec => []InviteAdmitsOne
<1>1. IInv => InviteAdmitsOne
  BY DEF IInv
<1>2. QED
  BY <1>1, Invariance, PTL

\* A session belongs to the user to whose mailbox its code was sent, through any
\* number of rotations and whatever address the verification named.
THEOREM MailboxOwnsSessionHolds == Spec => []MailboxOwnsSession
<1>1. IInv => MailboxOwnsSession
  BY DEF IInv
<1>2. QED
  BY <1>1, Invariance, PTL

\* An address that has registered was mailed a code, or the request that will mail
\* one is under way or was lost: no interleaving of requests for a new address
\* registers it and leaves it without a code.
THEOREM RegisteredIsMailedHolds == Spec => []RegisteredIsMailed
<1>1. IInv => RegisteredIsMailed
  BY DEF IInv
<1>2. QED
  BY <1>1, Invariance, PTL

-----------------------------------------------------------------------------
(* The refinement: a sign-in is a chain of tokens.                         *)

\* The head of each chain, without the choice its definition makes.
Heads ==
    \A c \in Codes :
        /\ SessionsOf(c) = {} => HeadOf(c) = None
        /\ SessionsOf(c) # {} /\ LiveOf(c) = {} => HeadOf(c) = Ended
        /\ \A t \in LiveOf(c) : HeadOf(c) = t

LEMMA HeadsKnown == IInv => Heads
<1> SUFFICES ASSUME IInv, NEW c \in Codes, NEW t \in LiveOf(c)
             PROVE  HeadOf(c) = t
  BY DEF Heads, HeadOf
<1>1. \A s \in LiveOf(c) : s = t
  BY DEF IInv, OneLive, LiveOf, SessionsOf
<1>2. LiveOf(c) = {t}
  BY <1>1
<1>3. SessionsOf(c) # {}
  BY DEF LiveOf
<1>4. QED
  BY <1>2, <1>3 DEF HeadOf

\* The chains move as their rows do.
LEMMA ChainsStay ==
  ASSUME IInv, UNCHANGED session
  PROVE  UNCHANGED Promised!chainVars
BY DEF Promised!chainVars, HeadOf, LiveOf, SessionsOf

LEMMA SameHead ==
  ASSUME NEW c \in Codes, SessionsOf(c)' = SessionsOf(c), LiveOf(c)' = LiveOf(c)
  PROVE  HeadOf(c)' = HeadOf(c)
BY DEF HeadOf

\* A step that changes the head of one chain, and the tokens handed out.
LEMMA HeadChange ==
  ASSUME NEW c \in Codes, NEW h, HeadOf(c)' = h,
         \A d \in Codes : d # c => SessionsOf(d)' = SessionsOf(d) /\ LiveOf(d)' = LiveOf(d)
  PROVE  [d \in Codes |-> HeadOf(d)]' = [[d \in Codes |-> HeadOf(d)] EXCEPT ![c] = h]
<1>1. \A d \in Codes : d # c => HeadOf(d)' = HeadOf(d)
  BY SameHead
<1>2. QED
  BY <1>1

\* Ending a session, by logout or by time, closes its chain if it was the head, and
\* is nothing if it was not.
LEMMA RevokeIsClose ==
  ASSUME IInv, IInv', NEW t \in Tokens, session' = RevokeSessionByTokenHash(t)
  PROVE  [Promised!Next]_(Promised!chainVars)
<1>1. CASE session[t].state # "live"
  BY <1>1, ChainsStay DEF RevokeSessionByTokenHash
<1>2. CASE session[t].state = "live"
  <2>0. session[t].code \in Codes
    BY <1>2 DEF IInv, MailboxOwnsSession, TypeOK
  <2> PICK c \in Codes : c = session[t].code
    BY <2>0
  <2>1. t \in SessionsOf(c) /\ t \in LiveOf(c)
    BY <1>2 DEF SessionsOf, LiveOf
  <2>2. HeadOf(c) = t
    BY <2>1, HeadsKnown DEF Heads
  <2>3. /\ session'[t].state = "over" /\ session'[t].code = c
        /\ \A s \in Tokens : s # t => session'[s] = session[s]
    BY <1>2 DEF RevokeSessionByTokenHash, IInv, TypeOK
  <2>4. \A s \in Tokens : session[s].state = "live" /\ session[s].code = c => s = t
    BY <1>2 DEF IInv, OneLive
  <2>5. SessionsOf(c)' # {} /\ LiveOf(c)' = {}
    BY <2>1, <2>3, <2>4 DEF SessionsOf, LiveOf
  <2>6. HeadOf(c)' = Ended
    BY <2>1, <2>5 DEF HeadOf
  <2>7. \A d \in Codes : d # c => SessionsOf(d)' = SessionsOf(d) /\ LiveOf(d)' = LiveOf(d)
    BY <2>3 DEF SessionsOf, LiveOf
  <2>8. {s \in Tokens : session[s].state # "none"}' = {s \in Tokens : session[s].state # "none"}
    BY <1>2, <2>3
  <2>9. Promised!Close(c)
    BY <2>1, <2>2, <2>6, <2>7, <2>8, HeadChange DEF Promised!Close
  <2>10. QED
    BY <2>1, <2>9 DEF Promised!Next
<1>3. QED
  BY <1>1, <1>2

\* The handler that consumed the code begins its chain.
LEMMA CreateSessionIsOpen ==
  ASSUME IInv, NEW k \in Tasks, NEW n \in Tokens, CreateSession(k, n)
  PROVE  [Promised!Next]_(Promised!chainVars)
<1>0. task[k].at = "session" /\ task[k].code \in Codes
  BY DEF CreateSession, IInv, HandlersOK, TypeOK
<1> PICK c \in Codes : c = task[k].code
  BY <1>0
<1>1. /\ SessionsOf(c) = {} /\ session[n].state = "none"
      /\ session' = [session EXCEPT ![n] = SessionRow(k)]
  BY <1>0 DEF CreateSession, IInv, CodeOpensOnce
<1>2. /\ session'[n].state = "live" /\ session'[n].code = c
      /\ \A s \in Tokens : s # n => session'[s] = session[s]
  BY <1>1 DEF SessionRow, IInv, TypeOK
<1>3. HeadOf(c) = None
  BY <1>1 DEF HeadOf
<1>4. SessionsOf(c)' = {n} /\ LiveOf(c)' = {n}
  BY <1>1, <1>2 DEF SessionsOf, LiveOf
<1>5. HeadOf(c)' = n
  BY <1>4 DEF HeadOf
<1>6. \A d \in Codes : d # c => SessionsOf(d)' = SessionsOf(d) /\ LiveOf(d)' = LiveOf(d)
  BY <1>1, <1>2 DEF SessionsOf, LiveOf
<1>7. /\ n \notin {s \in Tokens : session[s].state # "none"}
      /\ {s \in Tokens : session[s].state # "none"}'
           = {s \in Tokens : session[s].state # "none"} \cup {n}
  BY <1>1, <1>2
<1>8. Promised!Open(c, n)
  BY <1>1, <1>3, <1>5, <1>6, <1>7, HeadChange DEF Promised!Open, Promised!Fresh
<1>9. QED
  BY <1>1, <1>8 DEF Promised!Next

\* The transaction that revokes a live row and inserts its successor hands the chain
\* on; one that finds the row revoked does nothing.
LEMMA RotateSessionIsRotate ==
  ASSUME IInv, NEW k \in Tasks, NEW n \in Tokens, RotateSession(k, n)
  PROVE  [Promised!Next]_(Promised!chainVars)
<1> DEFINE t == task[k].token
<1>1. CASE ~Rotates(t)
  BY <1>1, ChainsStay DEF RotateSession
<1>2. CASE Rotates(t)
  <2>0. session[t].code \in Codes
    BY <1>2, RotationShape
  <2> PICK c \in Codes : c = session[t].code
    BY <2>0
  <2>1. /\ t \in Tokens /\ t # n /\ session[t].state = "live" /\ session[n].state = "none"
        /\ session'[t].state = "over" /\ session'[t].code = c
        /\ session'[n].state = "live" /\ session'[n].code = c
        /\ \A s \in Tokens : s # n /\ s # t => session'[s] = session[s]
    BY <1>2, RotationShape
  <2>2. \A s \in Tokens : session[s].state = "live" /\ session[s].code = c => s = t
    BY <2>1 DEF IInv, OneLive
  <2>3. t \in SessionsOf(c) /\ t \in LiveOf(c)
    BY <2>1 DEF SessionsOf, LiveOf
  <2>4. HeadOf(c) = t
    BY <2>1, <2>3, HeadsKnown DEF Heads
  <2>5. \A d \in Codes : d # c => SessionsOf(d)' = SessionsOf(d) /\ LiveOf(d)' = LiveOf(d)
    BY <2>1 DEF SessionsOf, LiveOf
  <2> HIDE DEF t
  <2>6. SessionsOf(c)' # {} /\ LiveOf(c)' = {n}
    BY <2>1, <2>2 DEF SessionsOf, LiveOf
  <2>7. HeadOf(c)' = n
    BY <2>6 DEF HeadOf
  <2>8. /\ n \notin {s \in Tokens : session[s].state # "none"}
        /\ {s \in Tokens : session[s].state # "none"}'
             = {s \in Tokens : session[s].state # "none"} \cup {n}
    BY <2>1
  <2>9. Promised!Rotate(c, t, n)
    BY <2>1, <2>4, <2>5, <2>7, <2>8, HeadChange DEF Promised!Rotate, Promised!Fresh
  <2>10. QED
    BY <2>1, <2>9 DEF Promised!Next
<1>3. QED
  BY <1>1, <1>2

LEMMA NextChains ==
  ASSUME IInv, IInv', [Next]_vars
  PROVE  [Promised!Next]_(Promised!chainVars)
<1>1. CASE UNCHANGED session
  BY <1>1, ChainsStay
<1>2. ASSUME NEW t \in Tokens, ExpireSession(t)
      PROVE  [Promised!Next]_(Promised!chainVars)
  <2>1. session' = RevokeSessionByTokenHash(t)
    BY <1>2 DEF ExpireSession, RevokeSessionByTokenHash
  <2>2. QED
    BY <2>1, RevokeIsClose
<1>3. CASE Environment
  BY <1>1, <1>2, <1>3 DEF Environment, CreateInvite, ExpireInvite, ExpireCode
<1>4. ASSUME NEW k \in Tasks, Arrival(k)
      PROVE  [Promised!Next]_(Promised!chainVars)
  <2>1. ASSUME NEW t \in Tokens, Logout(k, t)
        PROVE  [Promised!Next]_(Promised!chainVars)
    BY <2>1, RevokeIsClose DEF Logout
  <2>2. QED
    BY <1>1, <1>4, <2>1 DEF Arrival, RequestMagicCode, ConsumeMagicCode, Refresh
<1>5. ASSUME NEW k \in Tasks, TaskStep(k)
      PROVE  [Promised!Next]_(Promised!chainVars)
  <2>1. CASE \E n \in Tokens : CreateSession(k, n) \/ RotateSession(k, n)
    BY <2>1, CreateSessionIsOpen, RotateSessionIsRotate
  <2>2. QED
    BY <1>1, <1>5, <2>1 DEF TaskStep, CreateUser, CreateMagicCode, SendMagicCode, Reply
<1>6. ASSUME NEW k \in Tasks, Abort(k)
      PROVE  [Promised!Next]_(Promised!chainVars)
  BY <1>1, <1>6 DEF Abort
<1>7. CASE UNCHANGED vars
  BY <1>1, <1>7 DEF vars
<1>8. QED
  BY <1>3, <1>4, <1>5, <1>6, <1>7 DEF Next

LEMMA InitChains == Init => Promised!Init
BY DEF Init, Promised!Init, HeadOf, SessionsOf

\* Handlers that overlap, fail and lose replies implement the chains of tokens: a
\* code signs in once, a sign-in has one token at most that can be exchanged, an
\* exchanged token is never issued again, and nothing revives a sign-in that ended.
THEOREM Refinement == Spec => ImplementsChains
<1>1. IInv /\ IInv' /\ [Next]_vars => [Promised!Next]_(Promised!chainVars)
  BY NextChains
<1>2. QED
  BY <1>1, InitChains, Invariance, PTL DEF Spec, ImplementsChains, Promised!Spec

=============================================================================
