-------------------------- MODULE AccountClientProofs --------------------------
(***************************************************************************)
(* Machine-checked proofs about AccountClient, for any sign-ins, tokens    *)
(* and operations, of any kinds, in any number of windows.                 *)
(***************************************************************************)
EXTENDS AccountClient, TLAPS

Ats == {"new", "call", "read", "exchange", "reply", "write", "logout", "ok", "failed"}

Records ==
    [kind : {"none", "use", "signIn", "signOut"}, at : Ats,
     token : Tokens \cup {None}, pair : Tokens \cup {None},
     writes : SUBSET Secrets, retried : BOOLEAN, alone : BOOLEAN]

TypeOK ==
    /\ network \in {"reliable", "faulty"}
    /\ head \in [SignIns -> Tokens \cup {None, Ended}]
    /\ spent \in SUBSET Tokens /\ stale \in SUBSET Tokens
    /\ secret \in [Secrets -> Tokens \cup {None}]
    /\ op \in [Ops -> Records]

-----------------------------------------------------------------------------
(* The inductive invariant.                                                *)

\* The refresh token of a pair that has been received is yet to be written.
Pending(rec) == rec.at = "reply" \/ (rec.at = "write" /\ "refresh" \in rec.writes)

\* A refresh token in hand.
Holds(rec) == rec.at \in {"exchange", "logout"}

\* What an operation knows at each of its steps.
KindOK(rec) ==
    /\ rec.at = "new" <=> rec.kind = "none"
    /\ rec.at = "reply" => rec.pair # None
    /\ rec.at = "write" => rec.writes # {}
    /\ rec.at = "write" /\ rec.pair = None => rec.kind = "signOut"
    /\ rec.at = "read" => rec.kind \in {"use", "signOut"}
    /\ rec.at = "exchange" => rec.kind = "use" /\ rec.token # None
    /\ rec.at = "logout" => rec.kind = "signOut" /\ rec.token # None
    /\ rec.kind = "signOut" => rec.at \in {"read", "logout", "write", "ok", "failed"} /\ rec.pair = None

KindsOK == \A k \in Ops : KindOK(op[k])

\* Every token that anybody has was handed out.
Known ==
    /\ \A c \in SignIns : head[c] \in Tokens => head[c] \in spent
    /\ secret["refresh"] \in spent \cup {None} /\ stale \subseteq spent
    /\ \A k \in Ops :
         /\ op[k].pair \in spent \cup {None}
         /\ Holds(op[k]) => op[k].token \in spent

\* A refresh token that is yet to be written is known to nobody else.
Secrecy ==
    \A k \in Ops : Pending(op[k]) /\ op[k].pair # None =>
        /\ secret["refresh"] # op[k].pair
        /\ \A j \in Ops : Holds(op[j]) => op[j].token # op[k].pair
        /\ \A j \in Ops \ {k} : Pending(op[j]) => op[j].pair # op[k].pair

\* The server takes it, or has ended a sign-in: with one sign-in, its own.
LastIssued ==
    \A k \in Ops : Pending(op[k]) /\ op[k].pair # None =>
        \E c \in SignIns : \/ head[c] = op[k].pair
                           \/ head[c] = Ended

Common == TypeOK /\ KindsOK /\ Known /\ Secrecy

\* While nothing fails: a token that is yet to be written is one the server takes,
\* and one it takes no more is about to be overwritten or deleted.
Usable ==
    /\ \A k \in Ops : Pending(op[k]) /\ op[k].pair # None => op[k].pair \in Accepted
    /\ \/ secret["refresh"] \in Accepted \cup {None}
       \/ \E k \in Ops : Pending(op[k])

\* Without a sign-out nothing is deleted, and a sign-in leaves a token behind.
SignedIn ==
    (\A k \in Ops : op[k].kind # "signOut") =>
        \A k \in Ops : op[k].kind = "signIn" /\ op[k].at # "new" =>
            Pending(op[k]) \/ secret["refresh"] # None

\* An operation nobody overlaps is alone; its refresh token is taken, and the pair it
\* has received is good for its last call.
Unhindered ==
    /\ \A j, k \in Ops : op[k].alone /\ InFlight(k) /\ InFlight(j) => j = k
    /\ \A k \in Ops :
         /\ op[k].alone /\ op[k].at = "exchange" => op[k].token \in Accepted
         /\ InFlight(k) => op[k].pair \notin stale
         /\ op[k].at = "call" => op[k].pair \in {None, op[k].token}
         /\ op[k].at = "call" /\ op[k].retried => op[k].pair # None

Reliable == network = "reliable" => Usable /\ SignedIn /\ Unhindered /\ AloneDoesItsJob

IInv == Common /\ LastIssued /\ Reliable

-----------------------------------------------------------------------------
(* Updates of the operations.                                              *)

\* The same operation, but for an overlap that has been noticed.
Same(a, b) ==
    /\ b.kind = a.kind /\ b.at = a.at /\ b.token = a.token /\ b.pair = a.pair
    /\ b.writes = a.writes /\ b.retried = a.retried
    /\ b.alone => a.alone

\* Operation k has moved, and nobody else.
Moved(k) ==
    /\ op' \in [Ops -> Records]
    /\ \A j \in Ops \ {k} : Same(op[j], op'[j])

LEMMA FlightFacts ==
  ASSUME NEW k \in Ops
  PROVE  /\ InFlight(k) <=> op[k].at \notin {"new", "ok", "failed"}
         /\ Pending(op[k]) => InFlight(k)
         /\ Holds(op[k]) => InFlight(k)
  BY DEF InFlight, Pending, Holds

LEMMA SetMoves ==
  ASSUME TypeOK, NEW k \in Ops, NEW rec \in Records, Set(k, rec)
  PROVE  /\ Moved(k) /\ op'[k] = rec
         /\ \A j \in Ops \ {k} : op'[j] = op[j]
  BY DEF TypeOK, Set, Moved, Same

\* A beginning is noticed by all that are in flight.
LEMMA BeginMoves ==
  ASSUME TypeOK, NEW k \in Ops, op[k].at = "new", NEW rec \in Records, Begin(k, rec)
  PROVE  /\ Moved(k)
         /\ op'[k].alone <=> Busy = {}
         /\ op'[k].kind = rec.kind /\ op'[k].at = rec.at /\ op'[k].token = rec.token
         /\ op'[k].pair = rec.pair /\ op'[k].writes = rec.writes /\ op'[k].retried = rec.retried
         /\ \A j \in Ops \ {k} : InFlight(j) => ~op'[j].alone
         /\ \A j \in Ops \ {k} : ~InFlight(j) => op'[j] = op[j]
<1>1. PICK b \in BOOLEAN : b <=> Busy = {}
  OBVIOUS
<1>2. [rec EXCEPT !.alone = Busy = {}] = [rec EXCEPT !.alone = b]
  BY <1>1
<1>3. op' = [j \in Ops |->
               CASE j = k -> [rec EXCEPT !.alone = b]
                 [] j \in Busy \ {k} -> [op[j] EXCEPT !.alone = FALSE]
                 [] OTHER -> op[j]]
  BY <1>2 DEF Begin
<1>4. [rec EXCEPT !.alone = b] \in Records
  BY DEF Records
<1>5. \A j \in Ops : op[j] \in Records /\ [op[j] EXCEPT !.alone = FALSE] \in Records
  BY DEF TypeOK, Records
<1>6. op'[k] = [rec EXCEPT !.alone = b]
  BY <1>3
<1>7. \A j \in Ops \ {k} : op'[j] = IF InFlight(j) THEN [op[j] EXCEPT !.alone = FALSE] ELSE op[j]
  BY <1>3 DEF Busy
<1>8. op' \in [Ops -> Records]
  <2>1. \A j \in Ops : op'[j] \in Records
    BY <1>4, <1>5, <1>6, <1>7
  <2>2. op' = [j \in Ops |-> op'[j]]
    BY <1>3
  <2>3. QED
    BY <2>1, <2>2
<1>9. \A j \in Ops \ {k} : Same(op[j], op'[j])
  BY ZenonT(60), <1>5, <1>7 DEF Same, Records
<1>10. QED
  BY <1>1, <1>4, <1>5, <1>6, <1>7, <1>8, <1>9 DEF Moved, Records

-----------------------------------------------------------------------------
(* What steps keep.                                                        *)

\* Nothing is issued or stored: a session may end, an operation goes on with what it
\* has, or with the refresh token it reads.
Local(k) ==
    /\ UNCHANGED <<network, spent, secret, stale>>
    /\ head' = head \/ \E c \in SignIns : head' = [head EXCEPT ![c] = Ended]
    /\ Moved(k) /\ KindOK(op'[k])
    /\ op'[k].pair \in {op[k].pair, None}
    /\ Pending(op'[k]) /\ op'[k].pair # None => Pending(op[k]) /\ op'[k].pair = op[k].pair
    /\ Holds(op'[k]) =>
         op'[k].token # None /\ \/ op'[k].token = secret["refresh"]
                                \/ Holds(op[k]) /\ op'[k].token = op[k].token

LEMMA LocalKeeps ==
  ASSUME Common, NEW k \in Ops, Local(k)
  PROVE  Common' /\ (LastIssued => LastIssued')
<1>1. /\ head \in [SignIns -> Tokens \cup {None, Ended}] /\ head' \in [SignIns -> Tokens \cup {None, Ended}]
      /\ \A c \in SignIns : head'[c] = head[c] \/ head'[c] = Ended
      /\ secret' = secret /\ spent' = spent /\ stale' = stale /\ network' = network
  BY DEF Common, TypeOK, Local
<1>2. TypeOK'
  BY <1>1 DEF Common, TypeOK, Local, Moved
<1>3. \A j \in Ops \ {k} :
        /\ op'[j].pair = op[j].pair /\ op'[j].token = op[j].token
        /\ Pending(op'[j]) <=> Pending(op[j])
        /\ Holds(op'[j]) <=> Holds(op[j])
        /\ KindOK(op[j]) => KindOK(op'[j])
  BY DEF Local, Moved, Same, Pending, Holds, KindOK
<1>4. KindsOK'
  BY <1>3 DEF Common, KindsOK, Local
<1>5. Known'
  <2>1. \A c \in SignIns : head'[c] \in Tokens => head'[c] \in spent
    BY <1>1, EndedAssumption DEF Common, Known
  <2>2. \A j \in Ops : op'[j].pair \in spent \cup {None}
    BY <1>3 DEF Common, Known, Local
  <2>3. \A j \in Ops : Holds(op'[j]) => op'[j].token \in spent
    BY <1>3 DEF Common, Known, Local
  <2>4. QED
    BY <1>1, <2>1, <2>2, <2>3 DEF Common, Known
<1>6. Secrecy'
  <2> SUFFICES ASSUME NEW i \in Ops, Pending(op'[i]), op'[i].pair # None
               PROVE  /\ secret["refresh"] # op'[i].pair
                      /\ \A j \in Ops : Holds(op'[j]) => op'[j].token # op'[i].pair
                      /\ \A j \in Ops \ {i} : Pending(op'[j]) => op'[j].pair # op'[i].pair
    BY <1>1 DEF Secrecy
  <2>1. Pending(op[i]) /\ op'[i].pair = op[i].pair
    BY <1>3 DEF Local
  <2>2. /\ secret["refresh"] # op[i].pair
        /\ \A j \in Ops : Holds(op[j]) => op[j].token # op[i].pair
        /\ \A j \in Ops \ {i} : Pending(op[j]) => op[j].pair # op[i].pair
    BY <2>1 DEF Common, Secrecy
  <2>3. \A j \in Ops : Holds(op'[j]) => op'[j].token # op[i].pair
    BY <1>3, <2>2 DEF Local
  <2>4. \A j \in Ops \ {i} : Pending(op'[j]) => op'[j].pair # op[i].pair
    BY <1>3, <2>1, <2>2 DEF Local
  <2>5. QED
    BY <2>1, <2>2, <2>3, <2>4
<1>7. LastIssued => LastIssued'
  <2> SUFFICES ASSUME LastIssued, NEW i \in Ops, Pending(op'[i]), op'[i].pair # None
               PROVE  \E c \in SignIns : head'[c] = op'[i].pair \/ head'[c] = Ended
    BY DEF LastIssued
  <2>1. Pending(op[i]) /\ op'[i].pair = op[i].pair
    BY <1>3 DEF Local
  <2>2. PICK c \in SignIns : head[c] = op[i].pair \/ head[c] = Ended
    BY <2>1 DEF LastIssued
  <2>3. QED
    BY <1>1, <2>1, <2>2
<1>8. QED
  BY <1>2, <1>4, <1>5, <1>6, <1>7 DEF Common

\* A fresh token is issued: for one in hand, or for a code.
Issue(k, n) ==
    /\ UNCHANGED <<network, secret, stale>>
    /\ n \in Tokens \ spent /\ spent' = spent \cup {n}
    /\ \E c \in SignIns :
         /\ head[c] = None \/ (head[c] \in Tokens /\ Holds(op[k]) /\ head[c] = op[k].token)
         /\ head' = [head EXCEPT ![c] = n]
    /\ Moved(k) /\ KindOK(op'[k])
    /\ op'[k].at = "reply" /\ op'[k].pair = n

LEMMA IssueKeeps ==
  ASSUME Common, NEW k \in Ops, NEW n, Issue(k, n)
  PROVE  Common' /\ (LastIssued => LastIssued')
<1>1. PICK c \in SignIns :
        /\ head[c] = None \/ (head[c] \in Tokens /\ Holds(op[k]) /\ head[c] = op[k].token)
        /\ head' = [head EXCEPT ![c] = n]
  BY DEF Issue
<1>2. /\ head \in [SignIns -> Tokens \cup {None, Ended}] /\ n \in Tokens /\ n \notin spent
      /\ spent' = spent \cup {n} /\ secret' = secret /\ stale' = stale /\ network' = network
      /\ spent \subseteq Tokens /\ n # None
      /\ head'[c] = n /\ \A d \in SignIns : d # c => head'[d] = head[d]
  BY <1>1, NoneAssumption DEF Common, TypeOK, Issue
<1>3. /\ op'[k].at = "reply" /\ op'[k].pair = n /\ Pending(op'[k]) /\ ~Holds(op'[k])
      /\ \A j \in Ops \ {k} :
           /\ op'[j].pair = op[j].pair /\ op'[j].token = op[j].token
           /\ Pending(op'[j]) <=> Pending(op[j])
           /\ Holds(op'[j]) <=> Holds(op[j])
           /\ KindOK(op[j]) => KindOK(op'[j])
  BY DEF Issue, Moved, Same, Pending, Holds, KindOK
<1>4. TypeOK'
  BY <1>1, <1>2 DEF Common, TypeOK, Issue, Moved
<1>5. KindsOK'
  BY <1>3 DEF Common, KindsOK, Issue
<1>6. Known'
  <2>1. \A d \in SignIns : head'[d] \in Tokens => head'[d] \in spent'
    BY <1>2 DEF Common, Known
  <2>2. \A j \in Ops : op'[j].pair \in spent' \cup {None}
    BY <1>2, <1>3 DEF Common, Known
  <2>3. \A j \in Ops : Holds(op'[j]) => op'[j].token \in spent'
    BY <1>2, <1>3 DEF Common, Known
  <2>4. QED
    BY <1>2, <2>1, <2>2, <2>3 DEF Common, Known
<1>7. Secrecy'
  <2> SUFFICES ASSUME NEW i \in Ops, Pending(op'[i]), op'[i].pair # None
               PROVE  /\ secret["refresh"] # op'[i].pair
                      /\ \A j \in Ops : Holds(op'[j]) => op'[j].token # op'[i].pair
                      /\ \A j \in Ops \ {i} : Pending(op'[j]) => op'[j].pair # op'[i].pair
    BY <1>2 DEF Secrecy
  <2>1. CASE i = k
    <3>1. secret["refresh"] # n
      BY <1>2 DEF Common, Known
    <3>2. \A j \in Ops : Holds(op'[j]) => op'[j].token # n
      BY <1>2, <1>3 DEF Common, Known
    <3>3. \A j \in Ops \ {k} : op'[j].pair # n
      BY <1>2, <1>3 DEF Common, Known
    <3>4. QED
      BY <1>3, <2>1, <3>1, <3>2, <3>3
  <2>2. CASE i # k
    <3>1. Pending(op[i]) /\ op'[i].pair = op[i].pair /\ op[i].pair # n
      BY <1>2, <1>3, <2>2 DEF Common, Known
    <3>2. /\ secret["refresh"] # op[i].pair
          /\ \A j \in Ops : Holds(op[j]) => op[j].token # op[i].pair
          /\ \A j \in Ops \ {i} : Pending(op[j]) => op[j].pair # op[i].pair
      BY <2>2, <3>1 DEF Common, Secrecy
    <3>3. QED
      BY <1>3, <3>1, <3>2
  <2>3. QED
    BY <2>1, <2>2
<1>8. LastIssued => LastIssued'
  <2> SUFFICES ASSUME LastIssued, NEW i \in Ops, Pending(op'[i]), op'[i].pair # None
               PROVE  \E d \in SignIns : head'[d] = op'[i].pair \/ head'[d] = Ended
    BY DEF LastIssued
  <2>1. CASE i = k
    BY <1>2, <1>3, <2>1
  <2>2. CASE i # k
    <3>1. Pending(op[i]) /\ op'[i].pair = op[i].pair
      BY <1>3, <2>2
    <3>2. PICK d \in SignIns : head[d] = op[i].pair \/ head[d] = Ended
      BY <2>2, <3>1 DEF LastIssued
    <3>3. Holds(op[k]) => op[k].token # op[i].pair
      BY <3>1 DEF Common, Secrecy
    <3>4. d # c
      BY <1>1, <3>1, <3>2, <3>3, EndedAssumption
    <3>5. QED
      BY <1>2, <3>1, <3>2, <3>4
  <2>3. QED
    BY <2>1, <2>2
<1>9. QED
  BY <1>4, <1>5, <1>6, <1>7, <1>8 DEF Common

\* What a write does.
LEMMA WriteShape ==
  ASSUME Common, NEW k \in Ops, NEW s \in Secrets, Write(k, s)
  PROVE  /\ UNCHANGED <<network, head, spent, stale>>
         /\ op[k].at = "write" /\ s \in op[k].writes
         /\ secret' = [secret EXCEPT ![s] = op[k].pair]
         /\ Moved(k) /\ KindOK(op'[k]) /\ \A j \in Ops \ {k} : op'[j] = op[j]
         /\ op'[k].kind = op[k].kind /\ op'[k].pair = op[k].pair
         /\ op'[k].writes = op[k].writes \ {s} /\ op'[k].retried = op[k].retried
         /\ op'[k].alone = op[k].alone
         /\ op'[k].token = IF op[k].pair = None THEN op[k].token ELSE op[k].pair
         /\ \/ op'[k].at = "write"
            \/ op'[k].at = "ok" /\ op[k].pair = None
            \/ op'[k].at = "call" /\ op[k].pair # None
         /\ op[k].writes # {s} => op'[k].at = "write"
<1>1. /\ op[k] \in Records /\ KindOK(op[k]) /\ op[k].at = "write" /\ s \in op[k].writes
      /\ UNCHANGED <<network, head, spent, stale>>
      /\ secret' = [secret EXCEPT ![s] = op[k].pair]
  BY DEF Common, TypeOK, KindsOK, Write
<1> DEFINE at == CASE op[k].writes # {s} -> "write"
                   [] op[k].writes = {s} /\ op[k].pair = None -> "ok"
                   [] OTHER -> "call"
           rec == [op[k] EXCEPT !.writes = @ \ {s},
                                !.token = IF op[k].pair = None THEN @ ELSE op[k].pair,
                                !.at = at]
<1>2. \/ at = "write" /\ op[k].writes \ {s} # {}
      \/ at = "ok" /\ op[k].pair = None
      \/ at = "call" /\ op[k].pair # None
  BY <1>1
<1>3. op[k].writes # {s} => at = "write"
  OBVIOUS
<1>4. Set(k, rec)
  BY DEF Write
<1> HIDE DEF at
<1>5. rec \in Records
  BY <1>1, <1>2 DEF Records, Ats
<1>6. /\ rec.kind = op[k].kind /\ rec.pair = op[k].pair
      /\ rec.writes = op[k].writes \ {s} /\ rec.retried = op[k].retried
      /\ rec.alone = op[k].alone /\ rec.at = at
      /\ rec.token = IF op[k].pair = None THEN op[k].token ELSE op[k].pair
  BY <1>1 DEF Records
<1> HIDE DEF rec
<1>7. KindOK(rec)
  BY <1>1, <1>2, <1>6 DEF KindOK
<1>8. Moved(k) /\ op'[k] = rec /\ \A j \in Ops \ {k} : op'[j] = op[j]
  BY <1>4, <1>5, SetMoves DEF Common
<1>9. QED
  BY <1>1, <1>2, <1>3, <1>6, <1>7, <1>8

LEMMA WriteKeeps ==
  ASSUME Common, NEW k \in Ops, NEW s \in Secrets, Write(k, s)
  PROVE  Common' /\ (LastIssued => LastIssued')
<1>1. /\ network' = network /\ head' = head /\ spent' = spent /\ stale' = stale
      /\ op[k].at = "write" /\ s \in op[k].writes
      /\ Moved(k) /\ KindOK(op'[k])
      /\ op'[k].pair = op[k].pair /\ op'[k].writes = op[k].writes \ {s}
      /\ op'[k].at \in {"write", "ok", "call"}
      /\ op[k].pair \in Tokens \cup {None} /\ op[k].pair \in spent \cup {None}
  BY WriteShape DEF Common, TypeOK, Records, Known
<1>2. /\ secret' \in [Secrets -> Tokens \cup {None}]
      /\ s = "refresh" => secret'["refresh"] = op[k].pair /\ Pending(op[k])
      /\ s # "refresh" => secret'["refresh"] = secret["refresh"]
  BY <1>1, WriteShape DEF Common, TypeOK, Secrets, Pending
<1>3. /\ ~Holds(op'[k]) /\ (Pending(op'[k]) => s # "refresh" /\ Pending(op[k]))
      /\ \A j \in Ops \ {k} :
           /\ op'[j].pair = op[j].pair /\ op'[j].token = op[j].token
           /\ Pending(op'[j]) <=> Pending(op[j])
           /\ Holds(op'[j]) <=> Holds(op[j])
           /\ KindOK(op[j]) => KindOK(op'[j])
  BY <1>1 DEF Moved, Same, Pending, Holds, KindOK
<1>4. TypeOK'
  BY <1>1, <1>2 DEF Common, TypeOK, Moved
<1>5. KindsOK'
  BY <1>1, <1>3 DEF Common, KindsOK
<1>6. Known'
  BY <1>1, <1>2, <1>3 DEF Common, Known
<1>7. \A i \in Ops : Pending(op'[i]) => Pending(op[i]) /\ op'[i].pair = op[i].pair
  BY <1>1, <1>3
<1>8. Secrecy'
  <2> SUFFICES ASSUME NEW i \in Ops, Pending(op'[i]), op'[i].pair # None
               PROVE  /\ secret'["refresh"] # op'[i].pair
                      /\ \A j \in Ops : Holds(op'[j]) => op'[j].token # op'[i].pair
                      /\ \A j \in Ops \ {i} : Pending(op'[j]) => op'[j].pair # op'[i].pair
    BY DEF Secrecy
  <2>1. Pending(op[i]) /\ op'[i].pair = op[i].pair /\ (i = k => s # "refresh")
    BY <1>3, <1>7
  <2>2. /\ secret["refresh"] # op[i].pair
        /\ \A j \in Ops : Holds(op[j]) => op[j].token # op[i].pair
        /\ \A j \in Ops \ {i} : Pending(op[j]) => op[j].pair # op[i].pair
    BY <2>1 DEF Common, Secrecy
  <2>3. secret'["refresh"] # op[i].pair
    BY <1>2, <2>1, <2>2
  <2>4. QED
    BY <1>3, <1>7, <2>1, <2>2, <2>3
<1>9. LastIssued => LastIssued'
  BY <1>1, <1>7 DEF LastIssued
<1>10. QED
  BY <1>4, <1>5, <1>6, <1>8, <1>9 DEF Common

-----------------------------------------------------------------------------
(* What a network without failures adds.                                   *)

\* A step of operation k that stores nothing: a token is lost to the server only in
\* the hands of k, which is then about to write, and what k is to write is good.
Advance(k) ==
    /\ UNCHANGED <<secret, stale>> /\ Moved(k)
    /\ \A t \in Accepted : t \in Accepted' \/ (Holds(op[k]) /\ t = op[k].token /\ Pending(op'[k]))
    /\ Pending(op'[k]) /\ op'[k].pair # None => op'[k].pair \in Accepted'
    /\ Pending(op[k]) => Pending(op'[k])
    /\ op'[k].kind = op[k].kind \/ op[k].kind = "none"
    /\ op'[k].kind = "signIn" => Pending(op'[k]) \/ (op[k].kind = "signIn" /\ op[k].at # "new" /\ ~Pending(op[k]))

LEMMA AdvanceKeeps ==
  ASSUME Common, Usable, SignedIn, NEW k \in Ops, Advance(k)
  PROVE  Usable' /\ SignedIn'
<1>1. /\ secret' = secret
      /\ \A j \in Ops \ {k} :
           /\ op'[j].pair = op[j].pair /\ op'[j].kind = op[j].kind /\ op'[j].at = op[j].at
           /\ Pending(op'[j]) <=> Pending(op[j])
  BY DEF Advance, Moved, Same, Pending
<1>2. \A i \in Ops : Pending(op'[i]) /\ op'[i].pair # None => op'[i].pair \in Accepted'
  <2> SUFFICES ASSUME NEW i \in Ops, i # k, Pending(op'[i]), op'[i].pair # None
               PROVE  op'[i].pair \in Accepted'
    BY DEF Advance
  <2>1. Pending(op[i]) /\ op'[i].pair = op[i].pair
    BY <1>1
  <2>2. op[i].pair \in Accepted /\ (Holds(op[k]) => op[k].token # op[i].pair)
    BY <2>1 DEF Usable, Common, Secrecy
  <2>3. QED
    BY <2>1, <2>2 DEF Advance
<1>3. \/ secret["refresh"] \in Accepted' \cup {None}
      \/ \E i \in Ops : Pending(op'[i])
  <2>1. CASE \E i \in Ops : Pending(op[i])
    BY <1>1, <2>1 DEF Advance
  <2>2. CASE secret["refresh"] \in Accepted \cup {None}
    BY <2>2 DEF Advance
  <2>3. QED
    BY <2>1, <2>2 DEF Usable
<1>4. Usable'
  BY <1>1, <1>2, <1>3 DEF Usable
<1>5. SignedIn'
  <2> SUFFICES ASSUME \A i \in Ops : op'[i].kind # "signOut",
                      NEW i \in Ops, op'[i].kind = "signIn", op'[i].at # "new", ~Pending(op'[i])
               PROVE  secret["refresh"] # None
    BY <1>1 DEF SignedIn
  <2>1. \A j \in Ops : op[j].kind # "signOut"
    BY <1>1 DEF Advance
  <2>2. op[i].kind = "signIn" /\ op[i].at # "new" /\ ~Pending(op[i])
    BY <1>1 DEF Advance
  <2>3. QED
    BY <2>1, <2>2 DEF SignedIn
<1>6. QED
  BY <1>4, <1>5

\* An operation that was in flight goes on.
Onward(k) ==
    /\ Advance(k) /\ InFlight(k)
    /\ \A j \in Ops \ {k} : op'[j] = op[j]
    /\ op'[k].kind = op[k].kind /\ op'[k].alone = op[k].alone
    /\ op'[k].at = "exchange" =>
         head' = head /\ ~Pending(op[k]) /\ op'[k].token = secret["refresh"] /\ op'[k].token # None
    /\ op'[k].at # "call" /\ op'[k].at # "new"
    /\ op'[k].pair = op[k].pair \/ op'[k].pair \notin stale
    /\ op'[k].alone /\ op'[k].at = "failed" => op'[k].kind # "signOut" /\ (op'[k].kind = "use" => op'[k].token = None)

\* Only one operation is in flight while one is alone.
LEMMA AloneIsAlone ==
  ASSUME Unhindered, NEW j \in Ops, NEW k \in Ops, InFlight(k), j # k, op[j].alone
  PROVE  ~InFlight(j)
  BY DEF Unhindered

LEMMA OnwardKeeps ==
  ASSUME Common, Usable, SignedIn, Unhindered, AloneDoesItsJob, NEW k \in Ops, Onward(k)
  PROVE  Usable' /\ SignedIn' /\ Unhindered' /\ AloneDoesItsJob'
<1>1. Usable' /\ SignedIn'
  BY AdvanceKeeps DEF Onward
<1>2. /\ \A i \in Ops : op'[i].alone = op[i].alone /\ (InFlight(i)' => InFlight(i))
      /\ \A i \in Ops \ {k} : op'[i] = op[i] /\ (InFlight(i)' <=> InFlight(i))
      /\ InFlight(k) /\ stale' = stale /\ secret' = secret
  BY DEF Onward, Advance, InFlight
<1>3. \A i, j \in Ops : op'[j].alone /\ InFlight(j)' /\ InFlight(i)' => i = j
  BY <1>2 DEF Unhindered
<1>4. ASSUME NEW i \in Ops
      PROVE  /\ op'[i].alone /\ op'[i].at = "exchange" => op'[i].token \in Accepted'
             /\ InFlight(i)' => op'[i].pair \notin stale'
             /\ op'[i].at = "call" => op'[i].pair \in {None, op'[i].token}
             /\ op'[i].at = "call" /\ op'[i].retried => op'[i].pair # None
  <2>1. CASE i = k
    <3>1. op'[k].alone /\ op'[k].at = "exchange" => op'[k].token \in Accepted'
      <4> SUFFICES ASSUME op'[k].alone, op'[k].at = "exchange"
                   PROVE  op'[k].token \in Accepted'
        OBVIOUS
      <4>1. /\ head' = head /\ ~Pending(op[k]) /\ op'[k].token = secret["refresh"]
            /\ op'[k].token # None /\ op[k].alone
        BY <1>2 DEF Onward
      <4>2. \A j \in Ops : ~Pending(op[j])
        BY <1>2, <4>1, FlightFacts DEF Unhindered
      <4>3. secret["refresh"] \in Accepted
        BY <4>1, <4>2 DEF Usable
      <4>4. QED
        BY <4>1, <4>3 DEF Accepted
    <3>2. InFlight(k)' => op'[k].pair \notin stale'
      BY <1>2 DEF Onward, Unhindered
    <3>3. QED
      BY <2>1, <3>1, <3>2 DEF Onward
  <2>2. CASE i # k
    <3>1. op[i].alone => op[i].at # "exchange"
      BY <1>2, <2>2, AloneIsAlone DEF InFlight
    <3>2. QED
      BY <1>2, <2>2, <3>1 DEF Unhindered
  <2>3. QED
    BY <2>1, <2>2
<1>5. Unhindered'
  BY <1>3, <1>4 DEF Unhindered
<1>6. AloneDoesItsJob'
  <2> SUFFICES ASSUME NEW i \in Ops, op'[i].alone
               PROVE  /\ op'[i].kind = "use" /\ op'[i].at = "failed" => op'[i].token = None
                      /\ op'[i].kind = "signOut" => op'[i].at # "failed"
    BY DEF AloneDoesItsJob
  <2>1. CASE i = k
    BY <2>1 DEF Onward
  <2>2. CASE i # k
    BY <1>2, <2>2 DEF AloneDoesItsJob
  <2>3. QED
    BY <2>1, <2>2
<1>7. QED
  BY <1>1, <1>5, <1>6

\* An operation begins, and those in flight notice.
Starts(k) ==
    /\ Advance(k) /\ ~InFlight(k)
    /\ op'[k].alone <=> Busy = {}
    /\ \A j \in Ops \ {k} : InFlight(j) => ~op'[j].alone
    /\ \A j \in Ops \ {k} : ~InFlight(j) => op'[j] = op[j]
    /\ op'[k].at \in {"call", "read", "reply"}
    /\ op'[k].at = "call" => op'[k].pair = None /\ ~op'[k].retried
    /\ op'[k].pair \notin stale

LEMMA StartsKeeps ==
  ASSUME Common, Usable, SignedIn, Unhindered, AloneDoesItsJob, NEW k \in Ops, Starts(k)
  PROVE  Usable' /\ SignedIn' /\ Unhindered' /\ AloneDoesItsJob'
<1>1. Usable' /\ SignedIn'
  BY AdvanceKeeps DEF Starts
<1>2. /\ stale' = stale /\ ~InFlight(k)
      /\ \A i \in Ops \ {k} :
           /\ InFlight(i)' <=> InFlight(i)
           /\ InFlight(i) => ~op'[i].alone
           /\ ~InFlight(i) => op'[i] = op[i]
           /\ op'[i].pair = op[i].pair /\ op'[i].at = op[i].at /\ op'[i].token = op[i].token
           /\ op'[i].retried = op[i].retried
  BY DEF Starts, Advance, Moved, Same, InFlight
<1>3. \A i, j \in Ops : op'[j].alone /\ InFlight(j)' /\ InFlight(i)' => i = j
  <2> SUFFICES ASSUME NEW i \in Ops, NEW j \in Ops, op'[j].alone, InFlight(j)', InFlight(i)', i # j
               PROVE  FALSE
    OBVIOUS
  <2>1. j = k
    BY <1>2
  <2>2. InFlight(i) /\ Busy = {}
    BY <1>2, <2>1 DEF Starts
  <2>3. QED
    BY <2>2 DEF Busy
<1>4. ASSUME NEW i \in Ops
      PROVE  /\ op'[i].alone /\ op'[i].at = "exchange" => op'[i].token \in Accepted'
             /\ InFlight(i)' => op'[i].pair \notin stale'
             /\ op'[i].at = "call" => op'[i].pair \in {None, op'[i].token}
             /\ op'[i].at = "call" /\ op'[i].retried => op'[i].pair # None
  <2>1. CASE i = k
    BY <1>2, <2>1 DEF Starts
  <2>2. CASE i # k
    <3>1. op'[i].alone => op'[i].at # "exchange"
      BY <1>2, <2>2 DEF InFlight
    <3>2. QED
      BY <1>2, <2>2, <3>1 DEF Unhindered
  <2>3. QED
    BY <2>1, <2>2
<1>5. Unhindered'
  BY <1>3, <1>4 DEF Unhindered
<1>6. AloneDoesItsJob'
  <2> SUFFICES ASSUME NEW i \in Ops, op'[i].alone
               PROVE  /\ op'[i].kind = "use" /\ op'[i].at = "failed" => op'[i].token = None
                      /\ op'[i].kind = "signOut" => op'[i].at # "failed"
    BY DEF AloneDoesItsJob
  <2>1. CASE i = k
    BY <2>1 DEF Starts
  <2>2. CASE i # k
    BY <1>2, <2>2 DEF AloneDoesItsJob
  <2>3. QED
    BY <2>1, <2>2
<1>7. QED
  BY <1>1, <1>5, <1>6

-----------------------------------------------------------------------------
(* The steps.                                                              *)

\* The parts of the invariant, from the two kinds of steps.
LEMMA LocalStep ==
  ASSUME IInv, NEW k \in Ops, Local(k), network = "reliable" => Onward(k) \/ Starts(k)
  PROVE  IInv'
<1>1. Common' /\ LastIssued' /\ network' = network
  BY LocalKeeps DEF IInv, Local
<1>2. Reliable'
  BY <1>1, OnwardKeeps, StartsKeeps DEF IInv, Reliable
<1>3. QED
  BY <1>1, <1>2 DEF IInv

LEMMA IssueStep ==
  ASSUME IInv, NEW k \in Ops, NEW n, Issue(k, n), network = "reliable" => Onward(k) \/ Starts(k)
  PROVE  IInv'
<1>1. Common' /\ LastIssued' /\ network' = network
  BY IssueKeeps DEF IInv, Issue
<1>2. Reliable'
  BY <1>1, OnwardKeeps, StartsKeeps DEF IInv, Reliable
<1>3. QED
  BY <1>1, <1>2 DEF IInv

LEMMA UseStep ==
  ASSUME IInv, NEW k \in Ops, Use(k) \/ SignOut(k)
  PROVE  IInv'
<1>1. TypeOK /\ op[k] \in Records /\ KindOK(op[k]) /\ Common
  BY DEF IInv, Common, TypeOK, KindsOK
<1>2. PICK rec \in Records :
        /\ Begin(k, rec) /\ op[k].at = "new"
        /\ rec.pair = None /\ ~rec.retried /\ rec.writes = {}
        /\ \/ rec.kind = "use" /\ rec.at \in {"call", "read"}
           \/ rec.kind = "signOut" /\ rec.at = "read"
        /\ UNCHANGED <<network, head, spent, stale, secret>>
  <2>1. CASE Use(k)
    <3> DEFINE rec == [Idle EXCEPT !.kind = "use", !.token = secret["access"],
                             !.at = IF secret["access"] = None THEN "read" ELSE "call"]
    <3>1. secret["access"] \in Tokens \cup {None}
      BY <1>1 DEF TypeOK, Secrets
    <3>2. /\ rec \in Records /\ rec.pair = None /\ ~rec.retried /\ rec.writes = {}
          /\ rec.kind = "use" /\ rec.at \in {"call", "read"}
      BY <3>1 DEF Records, Idle, Ats
    <3>3. /\ Begin(k, rec) /\ op[k].at = "new"
          /\ UNCHANGED <<network, head, spent, stale, secret>>
      BY <2>1 DEF Use
    <3> HIDE DEF rec
    <3>4. QED
      BY <3>2, <3>3
  <2>2. CASE SignOut(k)
    <3> DEFINE rec == [Idle EXCEPT !.kind = "signOut", !.at = "read"]
    <3>1. /\ rec \in Records /\ rec.pair = None /\ ~rec.retried /\ rec.writes = {}
          /\ rec.kind = "signOut" /\ rec.at = "read"
      BY DEF Records, Idle, Ats
    <3>2. /\ Begin(k, rec) /\ op[k].at = "new"
          /\ UNCHANGED <<network, head, spent, stale, secret>>
      BY <2>2 DEF SignOut
    <3> HIDE DEF rec
    <3>3. QED
      BY <3>1, <3>2
  <2>3. QED
    BY <2>1, <2>2
<1>3. /\ Moved(k)
      /\ op'[k].alone <=> Busy = {}
      /\ op'[k].kind = rec.kind /\ op'[k].at = rec.at /\ op'[k].token = rec.token
      /\ op'[k].pair = rec.pair /\ op'[k].writes = rec.writes /\ op'[k].retried = rec.retried
      /\ \A j \in Ops \ {k} : InFlight(j) => ~op'[j].alone
      /\ \A j \in Ops \ {k} : ~InFlight(j) => op'[j] = op[j]
  BY <1>1, <1>2, BeginMoves
<1>4. ~Pending(op'[k]) /\ ~Holds(op'[k]) /\ ~Pending(op[k]) /\ ~InFlight(k)
  BY <1>2, <1>3 DEF Pending, Holds, InFlight
<1>5. KindOK(op'[k])
  BY <1>2, <1>3 DEF KindOK
<1>6. Local(k)
  BY <1>2, <1>3, <1>4, <1>5 DEF Local
<1>7. Accepted' = Accepted
  BY <1>2 DEF Accepted
<1>8. Advance(k)
  BY <1>1, <1>2, <1>3, <1>4, <1>7 DEF Advance, KindOK
<1>9. None \notin stale
  BY <1>1, NoneAssumption DEF TypeOK
<1>10. Starts(k)
  BY <1>2, <1>3, <1>4, <1>8, <1>9 DEF Starts
<1>11. QED
  BY <1>6, <1>10, LocalStep

LEMMA VerifyStep ==
  ASSUME IInv, NEW k \in Ops, NEW c \in SignIns, NEW n \in Tokens, VerifyMagicCode(k, c, n)
  PROVE  IInv'
<1>1. TypeOK /\ op[k] \in Records /\ KindOK(op[k]) /\ Common /\ n # None
  BY NoneAssumption DEF IInv, Common, TypeOK, KindsOK
<1>2. /\ op[k].at = "new" /\ head[c] = None /\ n \in Tokens \ spent
      /\ head' = [head EXCEPT ![c] = n] /\ spent' = spent \cup {n}
      /\ UNCHANGED <<network, stale, secret>>
  BY DEF VerifyMagicCode, Server!Open, Server!Fresh
<1>3. PICK rec \in Records :
        /\ Begin(k, rec) /\ rec.pair = n /\ rec.kind = "signIn" /\ rec.at = "reply"
  <2> DEFINE rec == [Idle EXCEPT !.kind = "signIn", !.at = "reply", !.pair = n]
  <2>1. rec \in Records /\ rec.pair = n /\ rec.kind = "signIn" /\ rec.at = "reply"
    BY DEF Records, Idle, Ats
  <2>2. Begin(k, rec)
    BY DEF VerifyMagicCode
  <2> HIDE DEF rec
  <2>3. QED
    BY <2>1, <2>2
<1>4. /\ Moved(k)
      /\ op'[k].alone <=> Busy = {}
      /\ op'[k].kind = rec.kind /\ op'[k].at = rec.at /\ op'[k].pair = rec.pair
      /\ \A j \in Ops \ {k} : InFlight(j) => ~op'[j].alone
      /\ \A j \in Ops \ {k} : ~InFlight(j) => op'[j] = op[j]
  BY <1>1, <1>2, <1>3, BeginMoves
<1>5. Pending(op'[k]) /\ ~Pending(op[k]) /\ ~InFlight(k)
  BY <1>2, <1>3, <1>4 DEF Pending, InFlight
<1>6. KindOK(op'[k])
  BY <1>1, <1>3, <1>4 DEF KindOK
<1>7. Issue(k, n)
  BY <1>2, <1>3, <1>4, <1>6 DEF Issue
<1>8. n \in Accepted' /\ \A t \in Accepted : t \in Accepted'
  BY <1>1, <1>2, NoneAssumption DEF Accepted, TypeOK
<1>9. Advance(k)
  BY <1>1, <1>2, <1>3, <1>4, <1>5, <1>8 DEF Advance, KindOK
<1>10. n \notin stale
  BY <1>1, <1>2 DEF Common, Known
<1>11. Starts(k)
  BY <1>3, <1>4, <1>5, <1>9, <1>10 DEF Starts
<1>12. QED
  BY <1>7, <1>11, IssueStep

LEMMA CallStep ==
  ASSUME IInv, NEW k \in Ops, Call(k)
  PROVE  IInv'
<1>1. TypeOK /\ op[k] \in Records /\ KindOK(op[k]) /\ Common /\ op[k].at = "call"
      /\ UNCHANGED <<network, head, spent, stale, secret>>
  BY DEF IInv, Common, TypeOK, KindsOK, Call
<1>2. PICK rec \in Records :
        /\ Set(k, rec)
        /\ rec.kind = op[k].kind /\ rec.pair = op[k].pair /\ rec.alone = op[k].alone
        /\ \/ rec.at = "ok"
           \/ rec.at = "read" /\ Retries(k)
           \/ rec.at = "failed" /\ ~Retries(k) /\ (op[k].token \in stale \/ MayFail)
  <2>1. CASE Set(k, [op[k] EXCEPT !.at = "ok"])
    <3> DEFINE rec == [op[k] EXCEPT !.at = "ok"]
    <3>1. rec \in Records /\ rec.kind = op[k].kind /\ rec.pair = op[k].pair /\ rec.alone = op[k].alone
          /\ rec.at = "ok"
      BY <1>1 DEF Records, Ats
    <3>2. Set(k, rec)
      BY <2>1
    <3> HIDE DEF rec
    <3>3. QED
      BY <3>1, <3>2
  <2>2. CASE /\ op[k].token \in stale \/ MayFail
             /\ Set(k, [op[k] EXCEPT !.at = IF Retries(k) THEN "read" ELSE "failed", !.retried = TRUE])
    <3> DEFINE rec == [op[k] EXCEPT !.at = IF Retries(k) THEN "read" ELSE "failed", !.retried = TRUE]
    <3>1. rec \in Records /\ rec.kind = op[k].kind /\ rec.pair = op[k].pair /\ rec.alone = op[k].alone
          /\ rec.at = IF Retries(k) THEN "read" ELSE "failed"
      BY <1>1 DEF Records, Ats
    <3>2. Set(k, rec)
      BY <2>2
    <3> HIDE DEF rec
    <3>3. QED
      BY <2>2, <3>1, <3>2
  <2>3. QED
    BY <2>1, <2>2 DEF Call, GoTo, ValidateAccessToken
<1>3. Moved(k) /\ op'[k] = rec /\ \A j \in Ops \ {k} : op'[j] = op[j]
  BY <1>1, <1>2, SetMoves
<1>4. ~Pending(rec) /\ ~Holds(rec) /\ ~Pending(op[k]) /\ InFlight(k)
  BY <1>1, <1>2 DEF Pending, Holds, InFlight
<1>5. KindOK(rec)
  BY <1>1, <1>2 DEF KindOK, Retries
<1>6. Local(k)
  BY <1>1, <1>2, <1>3, <1>4, <1>5 DEF Local
<1>7. Advance(k)
  BY <1>1, <1>2, <1>3, <1>4 DEF Advance, Accepted
<1>8. ASSUME network = "reliable"
      PROVE  Onward(k)
  <2>1. rec.at = "failed" => op[k].kind # "use"
    <3> SUFFICES ASSUME rec.at = "failed", op[k].kind = "use"
                 PROVE  FALSE
      OBVIOUS
    <3>1. op[k].retried /\ op[k].token \in stale
      BY <1>2, <1>8 DEF Retries, MayFail
    <3>2. op[k].pair = op[k].token /\ op[k].pair \notin stale
      BY <1>1, <1>4, <1>8, <3>1 DEF IInv, Reliable, Unhindered
    <3>3. QED
      BY <3>1, <3>2
  <2>2. op[k].kind # "signOut"
    BY <1>1 DEF KindOK
  <2>3. QED
    BY <1>2, <1>3, <1>4, <1>7, <2>1, <2>2 DEF Onward
<1>9. QED
  BY <1>6, <1>8, LocalStep

LEMMA ReadRefreshStep ==
  ASSUME IInv, NEW k \in Ops, ReadRefresh(k)
  PROVE  IInv'
<1>1. TypeOK /\ op[k] \in Records /\ KindOK(op[k]) /\ Common /\ op[k].at = "read"
      /\ UNCHANGED <<network, head, spent, stale, secret>>
      /\ secret["refresh"] \in Tokens \cup {None}
  BY DEF IInv, Common, TypeOK, Secrets, KindsOK, ReadRefresh
<1> DEFINE t == secret["refresh"]
           step == CASE op[k].kind = "use" -> IF t = None THEN "failed" ELSE "exchange"
                     [] OTHER -> IF t = None THEN "write" ELSE "logout"
           rec == [op[k] EXCEPT !.token = t, !.at = step,
                                !.writes = IF step = "write" THEN Secrets ELSE {}]
<1>2. /\ t = None => step = IF op[k].kind = "use" THEN "failed" ELSE "write"
      /\ t # None => step = IF op[k].kind = "use" THEN "exchange" ELSE "logout"
  OBVIOUS
<1>3. Set(k, rec)
  BY DEF ReadRefresh
<1> HIDE DEF step
<1>4. rec \in Records
  BY <1>1, <1>2 DEF Records, Ats
<1>5. /\ rec.kind = op[k].kind /\ rec.pair = op[k].pair /\ rec.alone = op[k].alone
      /\ rec.at = step /\ rec.token = t
      /\ rec.writes = IF step = "write" THEN Secrets ELSE {}
  BY <1>1 DEF Records
<1> HIDE DEF rec
<1>6. Moved(k) /\ op'[k] = rec /\ \A j \in Ops \ {k} : op'[j] = op[j]
  BY <1>1, <1>3, <1>4, SetMoves
<1>7. ~Pending(op[k]) /\ InFlight(k) /\ (Holds(rec) => t # None)
      /\ (Pending(rec) => rec.pair = None)
  BY <1>1, <1>2, <1>5 DEF Pending, Holds, InFlight, KindOK
<1>8. KindOK(rec)
  <2>1. Secrets # {}
    BY DEF Secrets
  <2>2. QED
    BY <1>1, <1>2, <1>5, <2>1 DEF KindOK
<1>9. Local(k)
  BY <1>1, <1>5, <1>6, <1>7, <1>8 DEF Local
<1>10. Advance(k)
  BY <1>1, <1>5, <1>6, <1>7 DEF Advance, Accepted
<1>11. Onward(k)
  <2>1. step = "failed" => rec.kind = "use" /\ t = None
    BY <1>2, <1>5
  <2>2. step = "exchange" => t # None
    BY <1>2
  <2>3. step # "call" /\ step # "new"
    BY <1>2
  <2>4. QED
    BY <1>1, <1>5, <1>6, <1>7, <1>10, <2>1, <2>2, <2>3 DEF Onward
<1>12. QED
  BY <1>9, <1>11, LocalStep

LEMMA ReceiveStep ==
  ASSUME IInv, NEW k \in Ops, Receive(k)
  PROVE  IInv'
<1>1. TypeOK /\ op[k] \in Records /\ KindOK(op[k]) /\ Common /\ op[k].at = "reply"
      /\ UNCHANGED <<network, head, spent, stale, secret>>
  BY DEF IInv, Common, TypeOK, KindsOK, Receive
<1> DEFINE rec == [op[k] EXCEPT !.at = "write", !.writes = Secrets]
<1>2. Set(k, rec)
  BY DEF Receive
<1>3. rec \in Records
  BY <1>1 DEF Records, Ats
<1>4. /\ rec.kind = op[k].kind /\ rec.pair = op[k].pair /\ rec.alone = op[k].alone
      /\ rec.at = "write" /\ rec.writes = Secrets /\ "refresh" \in Secrets
  BY <1>1 DEF Records, Secrets
<1> HIDE DEF rec
<1>5. Moved(k) /\ op'[k] = rec /\ \A j \in Ops \ {k} : op'[j] = op[j]
  BY <1>1, <1>2, <1>3, SetMoves
<1>6. Pending(op[k]) /\ Pending(rec) /\ ~Holds(rec) /\ InFlight(k)
  BY <1>1, <1>4 DEF Pending, Holds, InFlight
<1>7. KindOK(rec)
  BY <1>1, <1>4 DEF KindOK
<1>8. Local(k)
  BY <1>1, <1>4, <1>5, <1>6, <1>7 DEF Local
<1>9. ASSUME network = "reliable"
      PROVE  Onward(k)
  <2>1. op[k].pair # None => op[k].pair \in Accepted
    BY <1>6, <1>9 DEF IInv, Reliable, Usable
  <2>2. Accepted' = Accepted
    BY <1>1 DEF Accepted
  <2>3. Advance(k)
    BY <1>1, <1>4, <1>5, <1>6, <2>1, <2>2 DEF Advance
  <2>4. QED
    BY <1>4, <1>5, <1>6, <2>3 DEF Onward
<1>10. QED
  BY <1>8, <1>9, LocalStep

\* The exchange: a fresh pair for a token the server takes, or a refusal.
LEMMA ExchangeStep ==
  ASSUME IInv, NEW k \in Ops, Exchange(k)
  PROVE  IInv'
<1>1. TypeOK /\ op[k] \in Records /\ KindOK(op[k]) /\ Common /\ op[k].at = "exchange"
      /\ UNCHANGED <<network, stale, secret>>
      /\ InFlight(k) /\ Holds(op[k]) /\ ~Pending(op[k])
  BY DEF IInv, Common, TypeOK, KindsOK, Exchange, InFlight, Holds, Pending
<1>2. ASSUME NEW c \in SignIns, NEW n \in Tokens, Server!Rotate(c, op[k].token, n),
             Set(k, [op[k] EXCEPT !.at = "reply", !.pair = n])
      PROVE  IInv'
  <2> DEFINE rec == [op[k] EXCEPT !.at = "reply", !.pair = n]
  <2>1. /\ head[c] = op[k].token /\ op[k].token \in Tokens /\ n \in Tokens \ spent /\ n # None
        /\ head' = [head EXCEPT ![c] = n] /\ spent' = spent \cup {n}
    BY <1>2, NoneAssumption DEF Server!Rotate, Server!Fresh
  <2>2. rec \in Records
    BY <1>1 DEF Records, Ats
  <2>3. rec.kind = op[k].kind /\ rec.pair = n /\ rec.alone = op[k].alone /\ rec.at = "reply"
    BY <1>1 DEF Records
  <2>4. Set(k, rec)
    BY <1>2
  <2> HIDE DEF rec
  <2>5. Moved(k) /\ op'[k] = rec /\ \A j \in Ops \ {k} : op'[j] = op[j]
    BY <1>1, <2>2, <2>4, SetMoves
  <2>6. KindOK(rec) /\ Pending(rec)
    BY <1>1, <2>1, <2>3 DEF KindOK, Pending
  <2>7. Issue(k, n)
    BY <1>1, <2>1, <2>3, <2>5, <2>6 DEF Issue
  <2>8. n \in Accepted' /\ \A t \in Accepted : t \in Accepted' \/ t = op[k].token
    BY <1>1, <2>1 DEF Accepted, TypeOK
  <2>9. Advance(k)
    BY <1>1, <2>3, <2>5, <2>6, <2>8 DEF Advance
  <2>10. n \notin stale
    BY <1>1, <2>1 DEF Common, Known
  <2>11. Onward(k)
    BY <1>1, <2>3, <2>5, <2>9, <2>10 DEF Onward
  <2>12. QED
    BY <2>7, <2>11, IssueStep
<1>3. ASSUME \A c \in SignIns : head[c] # op[k].token, Refused(k), UNCHANGED <<head, spent>>
      PROVE  IInv'
  <2> DEFINE rec == [op[k] EXCEPT !.at = "failed"]
  <2>1. rec \in Records
    BY <1>1 DEF Records, Ats
  <2>2. rec.kind = op[k].kind /\ rec.pair = op[k].pair /\ rec.alone = op[k].alone /\ rec.at = "failed"
    BY <1>1 DEF Records
  <2>3. Set(k, rec)
    BY <1>3 DEF Refused, GoTo
  <2> HIDE DEF rec
  <2>4. Moved(k) /\ op'[k] = rec /\ \A j \in Ops \ {k} : op'[j] = op[j]
    BY <1>1, <2>1, <2>3, SetMoves
  <2>5. KindOK(rec) /\ ~Pending(rec) /\ ~Holds(rec)
    BY <1>1, <2>2 DEF KindOK, Pending, Holds
  <2>6. Local(k)
    BY <1>1, <1>3, <2>2, <2>4, <2>5 DEF Local
  <2>7. Advance(k)
    BY <1>1, <1>3, <2>2, <2>4, <2>5 DEF Advance, Accepted, KindOK
  <2>8. ASSUME network = "reliable"
        PROVE  Onward(k)
    <3>1. op[k].token \notin Accepted
      BY <1>3 DEF Accepted
    <3>2. ~op[k].alone
      BY <1>1, <2>8, <3>1 DEF IInv, Reliable, Unhindered
    <3>3. QED
      BY <1>1, <2>2, <2>4, <2>7, <3>2 DEF Onward
  <2>9. QED
    BY <2>6, <2>8, LocalStep
<1>4. QED
  BY <1>2, <1>3 DEF Exchange

\* The sign-out reaches the server, or not: its token is given up in either case.
LEMMA LogoutStep ==
  ASSUME IInv, NEW k \in Ops, LogoutAccount(k)
  PROVE  IInv'
<1>1. TypeOK /\ op[k] \in Records /\ KindOK(op[k]) /\ Common /\ op[k].at = "logout"
      /\ UNCHANGED <<network, stale, secret>>
      /\ InFlight(k) /\ Holds(op[k]) /\ ~Pending(op[k])
  BY DEF IInv, Common, TypeOK, KindsOK, LogoutAccount, InFlight, Holds, Pending
<1> DEFINE rec == [op[k] EXCEPT !.at = "write", !.writes = Secrets]
<1>2. /\ Set(k, rec) /\ spent' = spent
      /\ \/ head' = head
         \/ \E c \in SignIns : head[c] = op[k].token /\ head' = [head EXCEPT ![c] = Ended]
  BY DEF LogoutAccount, AfterLogout, Server!Close
<1>3. rec \in Records
  BY <1>1 DEF Records, Ats
<1>4. /\ rec.kind = op[k].kind /\ rec.pair = op[k].pair /\ rec.alone = op[k].alone
      /\ rec.at = "write" /\ rec.writes = Secrets /\ "refresh" \in Secrets
  BY <1>1 DEF Records, Secrets
<1> HIDE DEF rec
<1>5. Moved(k) /\ op'[k] = rec /\ \A j \in Ops \ {k} : op'[j] = op[j]
  BY <1>1, <1>2, <1>3, SetMoves
<1>6. Pending(rec) /\ ~Holds(rec) /\ rec.pair = None /\ rec.kind = "signOut"
  BY <1>1, <1>4 DEF Pending, Holds, KindOK
<1>7. KindOK(rec)
  BY <1>1, <1>4, <1>6 DEF KindOK
<1>8. Local(k)
  BY <1>1, <1>2, <1>5, <1>6, <1>7 DEF Local
<1>9. \A t \in Accepted : t \in Accepted' \/ t = op[k].token
  BY <1>1, <1>2 DEF Accepted, TypeOK
<1>10. Advance(k)
  BY <1>1, <1>4, <1>5, <1>6, <1>9 DEF Advance
<1>11. Onward(k)
  BY <1>1, <1>4, <1>5, <1>6, <1>10 DEF Onward
<1>12. QED
  BY <1>8, <1>11, LocalStep

LEMMA AbortStep ==
  ASSUME IInv, NEW k \in Ops, Abort(k)
  PROVE  IInv'
<1>1. TypeOK /\ op[k] \in Records /\ KindOK(op[k]) /\ Common
      /\ UNCHANGED <<network, head, spent, stale, secret>>
      /\ network = "faulty" /\ op[k].at # "new"
  BY DEF IInv, Common, TypeOK, KindsOK, Abort, MayFail, InFlight
<1> DEFINE rec == [op[k] EXCEPT !.at = "failed", !.writes = {}]
<1>2. Set(k, rec)
  BY DEF Abort
<1>3. rec \in Records
  BY <1>1 DEF Records, Ats
<1>4. rec.kind = op[k].kind /\ rec.pair = op[k].pair /\ rec.at = "failed"
  BY <1>1 DEF Records
<1> HIDE DEF rec
<1>5. Moved(k) /\ op'[k] = rec
  BY <1>1, <1>2, <1>3, SetMoves
<1>6. KindOK(rec) /\ ~Pending(rec) /\ ~Holds(rec)
  BY <1>1, <1>4 DEF KindOK, Pending, Holds
<1>7. Local(k)
  BY <1>1, <1>4, <1>5, <1>6 DEF Local
<1>8. QED
  BY <1>1, <1>7, LocalStep

\* What the environment does: a session ends, an access token expires.
LEMMA EndSessionStep ==
  ASSUME IInv, NEW c \in SignIns, EndSession(c)
  PROVE  IInv'
<1>1. /\ network' = network /\ network = "faulty" /\ head' = [head EXCEPT ![c] = Ended]
      /\ UNCHANGED <<spent, stale, secret, op>> /\ Common
      /\ head \in [SignIns -> Tokens \cup {None, Ended}]
  BY DEF IInv, Common, TypeOK, EndSession, MayFail, Server!Close
<1>2. \A d \in SignIns : head'[d] = head[d] \/ head'[d] = Ended
  BY <1>1
<1>3. TypeOK' /\ KindsOK' /\ Secrecy'
  BY <1>1 DEF Common, TypeOK, KindsOK, Secrecy
<1>4. Known'
  BY <1>1, <1>2, EndedAssumption DEF Common, Known
<1>5. LastIssued'
  BY <1>1, <1>2 DEF IInv, LastIssued
<1>6. Reliable'
  BY <1>1 DEF Reliable
<1>7. QED
  BY <1>3, <1>4, <1>5, <1>6 DEF IInv, Common

LEMMA AccessExpiresStep ==
  ASSUME IInv, NEW t \in Tokens, AccessExpires(t)
  PROVE  IInv'
<1>1. /\ UNCHANGED <<network, head, spent, secret, op>> /\ Common
      /\ stale' = stale \cup {t} /\ t \in spent
      /\ \A k \in Ops : InFlight(k) => op[k].pair # t
  BY DEF IInv, AccessExpires, Busy
<1>2. TypeOK' /\ KindsOK' /\ Secrecy' /\ Known'
  BY <1>1 DEF Common, TypeOK, KindsOK, Secrecy, Known
<1>3. LastIssued'
  BY <1>1 DEF IInv, LastIssued
<1>4. (Usable => Usable') /\ (SignedIn => SignedIn') /\ (AloneDoesItsJob => AloneDoesItsJob')
  BY <1>1 DEF Usable, SignedIn, AloneDoesItsJob, Accepted
<1>5. Unhindered => Unhindered'
  <2> SUFFICES ASSUME Unhindered
               PROVE  Unhindered'
    OBVIOUS
  <2>1. \A k \in Ops : (InFlight(k)' <=> InFlight(k)) /\ (InFlight(k) => op[k].pair \notin stale')
    BY <1>1 DEF Unhindered, InFlight
  <2>2. Accepted' = Accepted
    BY <1>1 DEF Accepted
  <2>3. QED
    BY <1>1, <2>1, <2>2 DEF Unhindered
<1>6. Reliable'
  BY <1>1, <1>4, <1>5 DEF IInv, Reliable
<1>7. QED
  BY <1>2, <1>3, <1>6 DEF IInv, Common

LEMMA WriteStep ==
  ASSUME IInv, NEW k \in Ops, NEW s \in Secrets, Write(k, s)
  PROVE  IInv'
<1>1. Common' /\ LastIssued' /\ Common
  BY WriteKeeps DEF IInv
<1>2. /\ UNCHANGED <<network, head, spent, stale>>
      /\ op[k].at = "write" /\ s \in op[k].writes
      /\ secret' = [secret EXCEPT ![s] = op[k].pair]
      /\ \A j \in Ops \ {k} : op'[j] = op[j]
      /\ op'[k].kind = op[k].kind /\ op'[k].pair = op[k].pair
      /\ op'[k].writes = op[k].writes \ {s} /\ op'[k].alone = op[k].alone
      /\ op'[k].token = IF op[k].pair = None THEN op[k].token ELSE op[k].pair
      /\ \/ op'[k].at = "write"
         \/ op'[k].at = "ok" /\ op[k].pair = None
         \/ op'[k].at = "call" /\ op[k].pair # None
      /\ op[k].writes # {s} => op'[k].at = "write"
  BY <1>1, WriteShape
<1>3. /\ s = "refresh" => secret'["refresh"] = op[k].pair /\ Pending(op[k]) /\ ~Pending(op'[k])
      /\ s # "refresh" => secret'["refresh"] = secret["refresh"] /\ (Pending(op'[k]) <=> Pending(op[k]))
  BY <1>1, <1>2 DEF Common, TypeOK, Secrets, Pending
<1>4. Accepted' = Accepted /\ InFlight(k)
  BY <1>2 DEF Accepted, InFlight
<1>5. \A i \in Ops : /\ Pending(op'[i]) => Pending(op[i]) /\ op'[i].pair = op[i].pair
                     /\ op'[i].kind = op[i].kind /\ op'[i].alone = op[i].alone
                     /\ op'[i].at # "new" => op[i].at # "new"
                     /\ InFlight(i)' => InFlight(i)
  BY <1>2, <1>3, <1>4 DEF InFlight
<1>6. ASSUME network = "reliable"
      PROVE  Usable' /\ SignedIn' /\ Unhindered' /\ AloneDoesItsJob'
  <2>1. Usable /\ SignedIn /\ Unhindered /\ AloneDoesItsJob
    BY <1>6 DEF IInv, Reliable
  <2>2. Usable'
    <3>1. \A i \in Ops : Pending(op'[i]) /\ op'[i].pair # None => op'[i].pair \in Accepted'
      BY <1>4, <1>5, <2>1 DEF Usable
    <3>2. \/ secret'["refresh"] \in Accepted' \cup {None}
          \/ \E i \in Ops : Pending(op'[i])
      <4>1. CASE s = "refresh"
        BY <1>3, <1>4, <2>1, <4>1 DEF Usable
      <4>2. CASE s # "refresh"
        <5>1. \A i \in Ops : Pending(op[i]) => Pending(op'[i])
          BY <1>2, <1>3, <4>2
        <5>2. QED
          BY <1>3, <1>4, <2>1, <4>2, <5>1 DEF Usable
      <4>3. QED
        BY <4>1, <4>2
    <3>3. QED
      BY <3>1, <3>2 DEF Usable
  <2>3. SignedIn'
    <3> SUFFICES ASSUME \A i \in Ops : op'[i].kind # "signOut",
                        NEW i \in Ops, op'[i].kind = "signIn", op'[i].at # "new", ~Pending(op'[i])
                 PROVE  secret'["refresh"] # None
      BY DEF SignedIn
    <3>1. \A j \in Ops : op[j].kind # "signOut"
      BY <1>5
    <3>2. op[i].kind = "signIn" /\ op[i].at # "new"
      BY <1>5
    <3>3. CASE s = "refresh"
      <4>1. op[k].pair # None
        BY <1>1, <1>2, <3>1 DEF Common, KindsOK, KindOK
      <4>2. QED
        BY <1>3, <3>3, <4>1
    <3>4. CASE s # "refresh"
      <4>1. ~Pending(op[i])
        BY <1>2, <1>3, <3>4
      <4>2. QED
        BY <1>3, <2>1, <3>1, <3>2, <3>4, <4>1 DEF SignedIn
    <3>5. QED
      BY <3>3, <3>4
  <2>4. Unhindered'
    <3>1. \A i, j \in Ops : op'[j].alone /\ InFlight(j)' /\ InFlight(i)' => i = j
      BY <1>5, <2>1 DEF Unhindered
    <3>2. ASSUME NEW i \in Ops
          PROVE  /\ op'[i].alone /\ op'[i].at = "exchange" => op'[i].token \in Accepted'
                 /\ InFlight(i)' => op'[i].pair \notin stale'
                 /\ op'[i].at = "call" => op'[i].pair \in {None, op'[i].token}
                 /\ op'[i].at = "call" /\ op'[i].retried => op'[i].pair # None
      <4>1. CASE i = k
        BY <1>2, <1>4, <2>1, <4>1 DEF Unhindered
      <4>2. CASE i # k
        BY <1>2, <1>4, <1>5, <2>1, <4>2 DEF Unhindered
      <4>3. QED
        BY <4>1, <4>2
    <3>3. QED
      BY <3>1, <3>2 DEF Unhindered
  <2>5. AloneDoesItsJob'
    <3>1. \A i \in Ops : op'[i] = op[i] \/ op'[i].at # "failed"
      BY <1>2
    <3>2. QED
      BY <2>1, <3>1 DEF AloneDoesItsJob
  <2>6. QED
    BY <2>2, <2>3, <2>4, <2>5
<1>7. QED
  BY <1>1, <1>2, <1>6 DEF IInv, Reliable

-----------------------------------------------------------------------------
(* The inductive invariant, and the theorems.                              *)

LEMMA StutterStep ==
  ASSUME IInv, UNCHANGED vars
  PROVE  IInv'
<1>1. UNCHANGED <<network, head, spent, stale, secret, op>>
  BY DEF vars
<1>2. TypeOK' /\ KindsOK' /\ Known' /\ Secrecy' /\ LastIssued'
  BY <1>1 DEF IInv, Common, TypeOK, KindsOK, Known, Secrecy, LastIssued
<1>3. (Usable => Usable') /\ (SignedIn => SignedIn') /\ (AloneDoesItsJob => AloneDoesItsJob')
  BY <1>1 DEF Usable, SignedIn, AloneDoesItsJob, Accepted
<1>4. Unhindered => Unhindered'
  BY <1>1 DEF Unhindered, InFlight, Accepted
<1>5. QED
  BY <1>1, <1>2, <1>3, <1>4 DEF IInv, Common, Reliable

LEMMA InitIInv == Init => IInv
<1> SUFFICES ASSUME Init
             PROVE  IInv
  OBVIOUS
<1>1. /\ network \in Networks /\ head = [c \in SignIns |-> None] /\ spent = {} /\ stale = {}
      /\ secret = [s \in Secrets |-> None] /\ op = [k \in Ops |-> Idle]
  BY DEF Init, Server!Init
<1>2. "refresh" \in Secrets
  BY DEF Secrets
<1>3. Idle \in Records /\ KindOK(Idle) /\ ~Pending(Idle) /\ ~Holds(Idle)
  BY DEF Idle, Records, Ats, KindOK, Pending, Holds
<1>4. \A k \in Ops : op[k] = Idle /\ ~InFlight(k)
  BY <1>1 DEF Idle, InFlight
<1>5. TypeOK
  BY <1>1, <1>3, NetworkAssumption DEF TypeOK
<1>6. KindsOK /\ Secrecy /\ LastIssued
  BY <1>3, <1>4 DEF KindsOK, Secrecy, LastIssued
<1>7. Known
  <2>1. \A k \in Ops : op[k].pair = None
    BY <1>4 DEF Idle
  <2>2. QED
    BY <1>1, <1>2, <1>3, <1>4, <2>1, NoneAssumption DEF Known
<1>8. Usable /\ SignedIn /\ Unhindered /\ AloneDoesItsJob
  <2>1. Usable
    BY <1>1, <1>2, <1>3, <1>4 DEF Usable
  <2>2. SignedIn /\ Unhindered /\ AloneDoesItsJob
    BY <1>4 DEF SignedIn, Unhindered, AloneDoesItsJob, Idle
  <2>3. QED
    BY <2>1, <2>2
<1>9. QED
  BY <1>5, <1>6, <1>7, <1>8 DEF IInv, Common, Reliable

LEMMA NextStep ==
  ASSUME IInv, [Next]_vars
  PROVE  IInv'
<1>1. ASSUME NEW k \in Ops, OpStep(k)
      PROVE  IInv'
  BY <1>1, CallStep, ReadRefreshStep, ExchangeStep, ReceiveStep, LogoutStep, WriteStep DEF OpStep
<1>2. ASSUME NEW k \in Ops, Use(k) \/ SignOut(k)
      PROVE  IInv'
  BY <1>2, UseStep
<1>3. ASSUME NEW k \in Ops, Abort(k)
      PROVE  IInv'
  BY <1>3, AbortStep
<1>4. ASSUME NEW k \in Ops, NEW c \in SignIns, NEW n \in Tokens, VerifyMagicCode(k, c, n)
      PROVE  IInv'
  BY <1>4, VerifyStep
<1>5. ASSUME NEW t \in Tokens, AccessExpires(t)
      PROVE  IInv'
  BY <1>5, AccessExpiresStep
<1>6. ASSUME NEW c \in SignIns, EndSession(c)
      PROVE  IInv'
  BY <1>6, EndSessionStep
<1>7. CASE UNCHANGED vars
  BY <1>7, StutterStep
<1>8. QED
  BY <1>1, <1>2, <1>3, <1>4, <1>5, <1>6, <1>7 DEF Next

LEMMA Invariance == Spec => []IInv
<1>1. IInv /\ [Next]_vars => IInv'
  BY NextStep
<1>2. QED
  BY InitIInv, <1>1, PTL DEF Spec

\* accountService.ts, credentialStore.ts: what the operations of all windows keep in
\* hand, on the server and in the secret storage.
THEOREM TypeCorrect == Spec => []TypeOK
<1>1. IInv => TypeOK
  BY DEF IInv, Common
<1>2. QED
  BY <1>1, Invariance, PTL

\* accountService.ts: however many windows refresh, sign in and sign out at the same
\* time, while no reply is lost the user is never left with a token the server refuses,
\* and an operation that nobody overlaps does its job.
THEOREM NobodyIsStrandedHolds == Spec => []NobodyIsStranded
<1>1. ASSUME IInv
      PROVE  NobodyIsStranded
  <2> SUFFICES ASSUME network = "reliable"
               PROVE  NotStranded /\ AloneDoesItsJob
    BY DEF NobodyIsStranded
  <2>1. Usable /\ SignedIn /\ AloneDoesItsJob
    BY <1>1 DEF IInv, Reliable
  <2>2. ASSUME Busy = {}
        PROVE  \A k \in Ops : ~Pending(op[k])
    BY <2>2, FlightFacts DEF Busy
  <2>3. NotStranded
    BY <2>1, <2>2 DEF NotStranded, Usable, SignedIn
  <2>4. QED
    BY <2>1, <2>3
<1>2. QED
  BY <1>1, Invariance, PTL

\* setAccountTokens: with one sign-in, a refresh token that the server takes is never
\* overwritten by one that it has taken back, whatever is lost and whoever refreshes.
THEOREM StoreNeverGoesBackHolds == Spec => StoreNeverGoesBack
<1>1. ASSUME IInv, [Next]_vars, OneSignIn
      PROVE  StoreStep
  <2> SUFFICES ASSUME secret["refresh"] \in Accepted,
                      secret'["refresh"] \notin {None, secret["refresh"]}
               PROVE  secret'["refresh"] \in Accepted'
    BY DEF StoreStep
  <2>1. secret' # secret
    OBVIOUS
  <2>2. PICK k \in Ops, s \in Secrets : Write(k, s)
    BY <1>1, <2>1 DEF Next, OpStep, vars, Call, ReadRefresh, Exchange, Receive, LogoutAccount,
       Use, SignOut, Abort, VerifyMagicCode, AccessExpires, EndSession
  <2>3. /\ head' = head /\ op[k].at = "write" /\ s \in op[k].writes
        /\ secret' = [secret EXCEPT ![s] = op[k].pair]
    BY <2>2 DEF Write
  <2>4. secret \in [Secrets -> Tokens \cup {None}] /\ op[k] \in Records
    BY <1>1 DEF IInv, Common, TypeOK
  <2>5. s = "refresh" /\ secret'["refresh"] = op[k].pair /\ op[k].pair # None
    BY <2>3, <2>4
  <2>6. Pending(op[k])
    BY <2>3, <2>5 DEF Pending
  <2>7. PICK d \in SignIns : head[d] = op[k].pair \/ head[d] = Ended
    BY <1>1, <2>5, <2>6 DEF IInv, LastIssued
  <2>8. PICK c \in SignIns : head[c] = secret["refresh"] /\ head[c] \in Tokens
    BY DEF Accepted
  <2>9. op[k].pair \in Tokens /\ Ended \notin Tokens \cup {None}
    BY <2>4, <2>5, EndedAssumption DEF Records
  <2>10. head[c] # None /\ head[d] # None
    BY <2>5, <2>7, <2>8, <2>9, NoneAssumption
  <2>11. d = c
    BY <1>1, <2>10 DEF OneSignIn
  <2>12. head[d] = op[k].pair
    BY <2>7, <2>8, <2>9, <2>11
  <2>13. QED
    BY <2>3, <2>5, <2>9, <2>12 DEF Accepted
<1>2. IInv /\ [Next]_vars => [OneSignIn => StoreStep]_vars
  BY <1>1
<1>3. QED
  BY <1>2, Invariance, PTL DEF Spec, StoreNeverGoesBack

===============================================================================
