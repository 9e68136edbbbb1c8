---------------------------- MODULE CognitiveProofs ----------------------------
(***************************************************************************)
(* Theorems of CognitiveLoop, and of the permissions of Authorization it   *)
(* composes with, for all actions, targets, lifetimes and numbers of       *)
(* requests: what was executed had been permitted, a request is decided    *)
(* once, and the verdict a run leaves behind is the right one.  And        *)
(* theorems of Advice, whose names are none of theirs, for all             *)
(* observations, goals, stores and answers: advice is consistent with the  *)
(* danger of the place and with what the user answered, and what is        *)
(* remembered is of now.                                                   *)
(***************************************************************************)
EXTENDS CognitiveLoop, Advice, Integers, FiniteSetTheorems, SequenceTheorems, TLAPS

-----------------------------------------------------------------------------
\* Permissions: a token is the only one of its request, says what the request
\* said, and its request was approved.
TokensFit ==
  /\ \A k, j \in DOMAIN token : token[k].request = token[j].request => k = j
  /\ \A k \in DOMAIN token :
       LET r == request[token[k].request]
       IN  /\ r.status \in {"APPROVED", "EXPIRED"}
           /\ r.action = token[k].action /\ r.target = token[k].target

AuthInv == AuthTypeOK /\ TokensFit /\ ExecutedWithPermission

\* Every step of the loop does one of these to the permissions, or nothing.
AuthStep ==
  \/ \E a \in Action, t \in Target :
       CreateRequest(a, t, "PENDING") /\ UNCHANGED <<now, token, done>>
  \/ \E r \in DOMAIN request : Approve(r) /\ UNCHANGED <<now, done>>
  \/ \E r \in DOMAIN request : Reject(r) /\ UNCHANGED <<now, token, done>>
  \/ \E r \in DOMAIN request : Expire(r) /\ UNCHANGED <<now, token, done>>
  \/ \E k \in DOMAIN token, a \in Action, t \in Target :
       \E scope \in {<<>>} \cup (Action \X Target) :
         Execute(k, a, t, scope) /\ UNCHANGED <<now, request, token>>
  \/ Tick
  \/ UNCHANGED authVars

-----------------------------------------------------------------------------
\* What the context and the trace hold when a run is at a stage.
FieldsAt ==
  [observation       |-> {},
   vision_evaluation |-> {"observation"},
   decision          |-> {"observation", "vision_evaluation"},
   planning          |-> {"observation", "vision_evaluation", "decision"},
   confirmation      |-> Required \ {"confirmation"},
   approval          |-> Required,
   sandbox           |-> Required \cup {"approval"},
   reflection        |-> Required \cup {"approval", "sandbox"},
   evaluation        |-> Required \cup {"approval", "sandbox", "reflection"}]

\* The trace of a run that goes through, and how much of it there is at a stage
\* (the approval leaves no trace of its own).
FullTrace == <<"observation", "vision_evaluation", "decision", "planning",
               "confirmation", "sandbox", "reflection", "evaluation">>

Passed ==
  [observation |-> 0, vision_evaluation |-> 1, decision |-> 2, planning |-> 3,
   confirmation |-> 4, approval |-> 5, sandbox |-> 5, reflection |-> 6, evaluation |-> 7]

TraceOf(n) == [i \in 1..n |-> FullTrace[i]]

Running ==
  IF pc = "out"
  THEN plan = <<>> /\ cur = 0 /\ ctx = {} /\ stages = <<>>
  ELSE plan \in Action \X Target /\ ctx = FieldsAt[pc] /\ stages = TraceOf(Passed[pc])

\* From its confirmation on a run has a request of its own, from its approval
\* on the newest token is that request's, and from the sandbox on it was used.
Owned ==
  /\ pc \in {"observation", "vision_evaluation", "decision", "planning", "confirmation"}
       => cur = 0
  /\ pc \in {"approval", "sandbox", "reflection", "evaluation"} =>
       /\ cur \in DOMAIN request
       /\ request[cur].action = plan[1] /\ request[cur].target = plan[2]
  /\ pc \in {"sandbox", "reflection", "evaluation"} =>
       token # <<>> /\ token[Len(token)].request = cur
  /\ pc \in {"reflection", "evaluation"} =>
       \E d \in done :
         d.token = Len(token) /\ d.action = plan[1] /\ d.target = plan[2]

LoopInv ==
  /\ AuthInv
  /\ pc \in ToSet(Order) \cup {"out"}
  /\ last \in [final : {"none", "COMPLETED", "BLOCKED", "FAILED"},
              valid : BOOLEAN, request : 0..MaxRequests]
  /\ last.request <= Len(request)
  /\ Len(request) <= MaxRequests
  /\ Running /\ Owned /\ VerdictFits /\ CompletedAsConfirmed

-----------------------------------------------------------------------------
\* What no step undoes: what a request asks for, a decision (except that it may
\* expire), a token, an execution.
Kept ==
  /\ \A r \in DOMAIN request :
       /\ r \in DOMAIN request'
       /\ request'[r].action = request[r].action /\ request'[r].target = request[r].target
       /\ request'[r].status # request[r].status =>
            request[r].status = "PENDING" \/ request'[r].status = "EXPIRED"
  /\ \A k \in DOMAIN token : k \in DOMAIN token' /\ token'[k] = token[k]
  /\ \A k \in DOMAIN token' \ DOMAIN token :
       token'[k].request \in DOMAIN request /\ request[token'[k].request].status = "PENDING"
  /\ done \subseteq done'

\* A token of before fits its request still, an execution its token.
LEMMA OldOnesFit ==
  ASSUME AuthInv, Kept
  PROVE  /\ \A k \in DOMAIN token :
              /\ token'[k].request \in DOMAIN request'
              /\ request'[token'[k].request].status \in {"APPROVED", "EXPIRED"}
              /\ request'[token'[k].request].action = token'[k].action
              /\ request'[token'[k].request].target = token'[k].target
         /\ \A d \in done :
              /\ d.token \in DOMAIN token' /\ d.action \in Allowed
              /\ d.at <= token'[d.token].expires
              /\ request'[token'[d.token].request].action = d.action
              /\ request'[token'[d.token].request].status \in {"APPROVED", "EXPIRED"}
  <1>1. ASSUME NEW k \in DOMAIN token
        PROVE  /\ token'[k].request \in DOMAIN request'
               /\ request'[token'[k].request].status \in {"APPROVED", "EXPIRED"}
               /\ request'[token'[k].request].action = token'[k].action
               /\ request'[token'[k].request].target = token'[k].target
    <2> DEFINE r == token[k].request
    <2>1. r \in DOMAIN request
      BY DEF AuthInv, AuthTypeOK
    <2>2. /\ request[r].status \in {"APPROVED", "EXPIRED"}
          /\ request[r].action = token[k].action /\ request[r].target = token[k].target
      BY DEF AuthInv, TokensFit
    <2>3. token'[k] = token[k]
      BY DEF Kept
    <2>4. QED
      BY <2>1, <2>2, <2>3 DEF Kept
  <1>2. ASSUME NEW d \in done
        PROVE  /\ d.token \in DOMAIN token' /\ d.action \in Allowed
               /\ d.at <= token'[d.token].expires
               /\ request'[token'[d.token].request].action = d.action
               /\ request'[token'[d.token].request].status \in {"APPROVED", "EXPIRED"}
    <2>1. /\ d.token \in DOMAIN token /\ d.action \in Allowed
          /\ d.at <= token[d.token].expires
          /\ request[token[d.token].request].action = d.action
      BY DEF AuthInv, ExecutedWithPermission
    <2>2. token[d.token].request \in DOMAIN request
      BY <2>1 DEF AuthInv, AuthTypeOK
    <2>3. token'[d.token] = token[d.token] /\ d.token \in DOMAIN token'
      BY <2>1 DEF Kept
    <2>4. QED
      BY <1>1, <2>1, <2>2, <2>3 DEF Kept
  <1>3. QED
    BY <1>1, <1>2

\* Steps that issue no token and execute nothing.
LEMMA NothingIssued ==
  ASSUME AuthInv, Kept, AuthTypeOK', token' = token, done' = done
  PROVE  AuthInv'
  <1>1. TokensFit'
    BY OldOnesFit DEF AuthInv, TokensFit
  <1>2. ExecutedWithPermission'
    BY OldOnesFit DEF ExecutedWithPermission
  <1>3. QED
    BY <1>1, <1>2 DEF AuthInv

\* A new request has no token yet.
LEMMA CreateKeeps ==
  ASSUME AuthInv, NEW a \in Action, NEW t \in Target,
         CreateRequest(a, t, "PENDING"), UNCHANGED <<now, token, done>>
  PROVE  AuthInv' /\ Kept
  <1> DEFINE q == [status |-> "PENDING", action |-> a, target |-> t]
  <1>1. request \in Seq(Request) /\ q \in Request /\ request' = Append(request, q)
    BY DEF AuthInv, AuthTypeOK, CreateRequest, Request, Status
  <1> HIDE DEF q
  <1>2. /\ request' \in Seq(Request)
        /\ \A r \in DOMAIN request : r \in DOMAIN request' /\ request'[r] = request[r]
    BY <1>1
  <1>3. Kept
    BY <1>2 DEF Kept
  <1>4. AuthTypeOK'
    BY <1>2 DEF AuthInv, AuthTypeOK
  <1>5. QED
    BY <1>3, <1>4, NothingIssued

\* A decision that issues no token.
LEMMA StatusKeeps ==
  ASSUME AuthInv, NEW r \in DOMAIN request, Reject(r) \/ Expire(r),
         UNCHANGED <<now, token, done>>
  PROVE  AuthInv' /\ Kept
  <1>1. request \in Seq(Request) /\ request[r] \in Request
    BY DEF AuthInv, AuthTypeOK
  <1>2. PICK st \in {"REJECTED", "EXPIRED"} :
          /\ request' = [request EXCEPT ![r].status = st]
          /\ st = "REJECTED" => request[r].status = "PENDING"
    BY DEF Reject, Expire
  <1>3. [request[r] EXCEPT !.status = st] \in Request
    BY <1>1 DEF Request, Status
  <1>4. /\ request' \in Seq(Request) /\ DOMAIN request' = DOMAIN request
        /\ \A x \in DOMAIN request :
             request'[x] = IF x = r THEN [request[r] EXCEPT !.status = st] ELSE request[x]
    BY <1>1, <1>2, <1>3
  <1>5. Kept
    BY <1>1, <1>2, <1>4 DEF Kept, Request
  <1>6. AuthTypeOK'
    BY <1>4 DEF AuthInv, AuthTypeOK
  <1>7. QED
    BY <1>5, <1>6, NothingIssued

\* approve: the request was pending, so no token of it exists yet.
LEMMA ApproveKeeps ==
  ASSUME AuthInv, NEW r \in DOMAIN request, Approve(r), UNCHANGED <<now, done>>
  PROVE  /\ AuthInv' /\ Kept
         /\ token' # <<>> /\ token'[Len(token')].request = r
  <1> DEFINE new == [request |-> r, action |-> request[r].action,
                     target |-> request[r].target, expires |-> now + TTL]
             n == Len(token) + 1
  <1>1. /\ request \in Seq(Request) /\ request[r] \in Request /\ token \in Seq(Token)
        /\ now \in Nat /\ r \in Nat
    BY DEF AuthInv, AuthTypeOK
  <1>2. new \in Token
    BY <1>1, AuthAssumption DEF Token, Request
  <1>3. /\ request[r].status = "PENDING"
        /\ request' = [request EXCEPT ![r].status = "APPROVED"]
        /\ token' = Append(token, new)
    BY DEF Approve
  <1>4. [request[r] EXCEPT !.status = "APPROVED"] \in Request
    BY <1>1 DEF Request, Status
  <1>5. /\ request' \in Seq(Request) /\ DOMAIN request' = DOMAIN request
        /\ \A x \in DOMAIN request :
             request'[x] = IF x = r THEN [request[r] EXCEPT !.status = "APPROVED"]
                                    ELSE request[x]
    BY <1>1, <1>3, <1>4
  <1>6. /\ request'[r].status = "APPROVED"
        /\ request'[r].action = new.action /\ request'[r].target = new.target
        /\ new.request = r /\ new.expires = now + TTL
    BY <1>1, <1>5 DEF Request
  <1> HIDE DEF new
  <1>7. /\ token' \in Seq(Token) /\ Len(token') = n /\ DOMAIN token' = DOMAIN token \cup {n}
        /\ token'[n] = new /\ \A k \in DOMAIN token : token'[k] = token[k]
    BY <1>1, <1>2, <1>3
  <1>8. Kept
    <2>1. \A k \in DOMAIN token' \ DOMAIN token :
            token'[k].request \in DOMAIN request /\ request[token'[k].request].status = "PENDING"
      BY <1>3, <1>6, <1>7
    <2>2. QED
      BY <1>1, <1>3, <1>5, <1>7, <2>1 DEF Kept, Request
  <1>9. AuthTypeOK'
    <2>1. \A k \in DOMAIN token' : token'[k].request \in DOMAIN request'
      BY <1>5, <1>6, <1>7 DEF AuthInv, AuthTypeOK
    <2>2. \A k \in DOMAIN token' : token'[k].expires <= now + TTL
      BY <1>1, <1>6, <1>7, AuthAssumption DEF AuthInv, AuthTypeOK
    <2>3. QED
      BY <1>5, <1>7, <2>1, <2>2 DEF AuthInv, AuthTypeOK
  <1>10. TokensFit'
    <2>1. ASSUME NEW k \in DOMAIN token PROVE token[k].request # r
      <3>1. request[token[k].request].status \in {"APPROVED", "EXPIRED"}
        BY DEF AuthInv, TokensFit
      <3>2. QED
        BY <1>3, <3>1
    <2>2. \A k, j \in DOMAIN token' : token'[k].request = token'[j].request => k = j
      BY <1>6, <1>7, <2>1 DEF AuthInv, TokensFit
    <2>3. QED
      BY <1>6, <1>7, <1>8, <2>2, OldOnesFit DEF TokensFit
  <1>11. ExecutedWithPermission'
    BY <1>8, OldOnesFit DEF ExecutedWithPermission
  <1>12. token' # <<>> /\ token'[Len(token')].request = r
    BY <1>1, <1>3, <1>6, <1>7
  <1>13. QED
    BY <1>8, <1>9, <1>10, <1>11, <1>12 DEF AuthInv

\* What a token is, for the provers.
LEMMA TokenAt ==
  ASSUME AuthInv, NEW k \in DOMAIN token
  PROVE  token[k] \in Token /\ token[k].expires \in Nat /\ k \in Nat
  <1>1. token \in Seq(Token)
    BY DEF AuthInv, AuthTypeOK
  <1>2. token[k] \in Token /\ k \in Nat
    BY <1>1
  <1>3. QED
    BY <1>2 DEF Token

\* execute: the sandbox looks at the token, and the token at its request.
LEMMA ExecuteKeeps ==
  ASSUME AuthInv, NEW k \in DOMAIN token, NEW a \in Action, NEW t \in Target,
         NEW scope, Execute(k, a, t, scope), UNCHANGED <<now, request, token>>
  PROVE  AuthInv' /\ Kept
  <1> DEFINE e == [token |-> k, action |-> a, target |-> t, at |-> now]
  <1>1. /\ done' = done \cup {e} /\ a = token[k].action /\ a \in Allowed
        /\ ~(token[k].expires < now)
    BY DEF Execute, Verified, Expired
  <1>2. /\ token \in Seq(Token) /\ token[k] \in Token /\ k \in Nat /\ now \in Nat
        /\ token[k].expires \in Nat
    BY TokenAt DEF AuthInv, AuthTypeOK
  <1>3. Kept
    BY <1>1 DEF Kept
  <1>4. AuthTypeOK'
    BY <1>1, <1>2 DEF AuthInv, AuthTypeOK, Execution
  <1>5. TokensFit'
    BY DEF AuthInv, TokensFit
  <1>6. now <= token[k].expires
    BY <1>1, <1>2
  <1>7. /\ request[token[k].request].action = a
        /\ request[token[k].request].status \in {"APPROVED", "EXPIRED"}
    BY <1>1 DEF AuthInv, TokensFit
  <1>8. ExecutedWithPermission'
    BY <1>1, <1>6, <1>7 DEF AuthInv, ExecutedWithPermission
  <1>9. QED
    BY <1>3, <1>4, <1>5, <1>8 DEF AuthInv

\* Time takes nothing back.
LEMMA TimeKeeps ==
  ASSUME AuthInv, Tick
  PROVE  AuthInv' /\ Kept
  <1>1. now' = now + 1 /\ now < MaxTime /\ now \in Nat /\ UNCHANGED <<request, token, done>>
    BY DEF Tick, AuthInv, AuthTypeOK
  <1>2. \A k \in DOMAIN token : token[k].expires \in Nat
    BY TokenAt
  <1>3. AuthTypeOK'
    BY <1>1, <1>2, AuthAssumption DEF AuthInv, AuthTypeOK
  <1>4. Kept
    BY <1>1 DEF Kept
  <1>5. QED
    BY <1>1, <1>3, <1>4, NothingIssued

\* Whatever happens to requests and tokens keeps the first part of the invariant.
LEMMA AuthStepKeeps ==
  ASSUME AuthInv, AuthStep
  PROVE  AuthInv' /\ Kept
  <1>1. CASE UNCHANGED authVars
    BY <1>1 DEF AuthInv, AuthTypeOK, TokensFit, ExecutedWithPermission, Kept, authVars
  <1>2. QED
    BY <1>1, CreateKeeps, ApproveKeeps, StatusKeeps, ExecuteKeeps, TimeKeeps DEF AuthStep

-----------------------------------------------------------------------------
\* The stages, written out.
Stage == {"observation", "vision_evaluation", "decision", "planning",
          "confirmation", "approval", "sandbox", "reflection", "evaluation"}

\* The nine stages in their order (agent_loop/orchestrator.py).
LEMMA StagesAre ==
  /\ ToSet(Order) = Stage
  /\ Head(Order) = "observation"
  /\ After("observation") = "vision_evaluation"
  /\ After("vision_evaluation") = "decision"
  /\ After("decision") = "planning"
  /\ After("planning") = "confirmation"
  /\ After("confirmation") = "approval"
  /\ After("approval") = "sandbox"
  /\ After("sandbox") = "reflection"
  /\ After("reflection") = "evaluation"
  <1>1. ToSet(Order) = Stage /\ Head(Order) = "observation"
    <2>1. DOMAIN Order = {1, 2, 3, 4, 5, 6, 7, 8, 9}
      BY DEF Order
    <2>2. QED
      BY <2>1 DEF ToSet, Order, Stage
  <1>2. Len(Order) - 1 = 8
    BY DEF Order
  <1>3. /\ Order[1] = "observation" /\ Order[2] = "vision_evaluation"
        /\ Order[3] = "decision" /\ Order[4] = "planning"
        /\ Order[5] = "confirmation" /\ Order[6] = "approval"
        /\ Order[7] = "sandbox" /\ Order[8] = "reflection" /\ Order[9] = "evaluation"
    BY DEF Order
  <1> HIDE DEF Order
  <1>4. ASSUME NEW n \in 1..8
        PROVE  After(Order[n]) = Order[n + 1]
    <2>1. \A i \in 1..8 : Order[i] = Order[n] => i = n
      <3> SUFFICES ASSUME NEW i \in 1..8, Order[i] = Order[n] PROVE i = n
        OBVIOUS
      <3>1. i \in {1, 2, 3, 4, 5, 6, 7, 8} /\ n \in {1, 2, 3, 4, 5, 6, 7, 8}
        OBVIOUS
      <3>2. QED
        BY <1>3, <3>1
    <2>2. (CHOOSE i \in 1..(Len(Order) - 1) : Order[i] = Order[n]) = n
      BY <1>2, <2>1
    <2>3. After(Order[n]) = Order[1 + n]
      BY <2>2 DEF After
    <2>4. 1 + n = n + 1
      OBVIOUS
    <2>5. QED
      BY <2>3, <2>4
  <1>5. /\ After(Order[1]) = Order[2] /\ After(Order[2]) = Order[3]
        /\ After(Order[3]) = Order[4] /\ After(Order[4]) = Order[5]
        /\ After(Order[5]) = Order[6] /\ After(Order[6]) = Order[7]
        /\ After(Order[7]) = Order[8] /\ After(Order[8]) = Order[9]
    BY <1>4
  <1>6. QED
    BY <1>1, <1>3, <1>5

\* A stage that is passed adds its name to the trace.
LEMMA TraceGrows ==
  ASSUME NEW n \in Nat
  PROVE  Append(TraceOf(n), FullTrace[n + 1]) = TraceOf(n + 1)
  <1> DEFINE S == {FullTrace[i] : i \in 1..(n + 1)}
             s == TraceOf(n)
             e == FullTrace[n + 1]
             t == TraceOf(n + 1)
             u == Append(s, e)
  <1>1. s \in Seq(S) /\ Len(s) = n /\ \A i \in 1..n : s[i] = FullTrace[i]
    BY DEF TraceOf
  <1>2. t \in Seq(S) /\ Len(t) = n + 1 /\ \A i \in 1..(n + 1) : t[i] = FullTrace[i]
    BY DEF TraceOf
  <1>3. e \in S
    OBVIOUS
  <1> HIDE DEF S, s, t
  <1>4. /\ u \in Seq(S) /\ Len(u) = n + 1 /\ u[n + 1] = e
        /\ \A i \in 1..n : u[i] = s[i]
    BY <1>1, <1>3, AppendProperties
  <1>5. ASSUME NEW i \in 1..(n + 1) PROVE u[i] = t[i]
    <2>1. i \in 1..n \/ i = n + 1
      OBVIOUS
    <2>2. QED
      BY <1>1, <1>2, <1>4, <2>1
  <1> HIDE DEF u
  <1>6. u = t
    BY <1>2, <1>4, <1>5, SeqEqual
  <1>7. QED
    BY <1>6 DEF u, s, t

\* How many stages are behind each.
LEMMA NamesAre ==
  /\ \A p \in Stage \ {"approval"} : Passed[p] \in Nat /\ FullTrace[Passed[p] + 1] = p
  /\ DOMAIN FullTrace = 1..8
  <1>1. \A p \in Stage \ {"approval"} : Passed[p] \in 0..7
    BY DEF Stage, Passed
  <1>2. \A p \in Stage \ {"approval"} : FullTrace[Passed[p] + 1] = p
    BY DEF Stage, Passed, FullTrace
  <1>3. QED
    BY <1>1, <1>2 DEF FullTrace

\* A stage that goes on leaves what the next one begins with.
LEMMA ProceedRuns ==
  ASSUME pc \in Stage, Running, Proceed, pc \notin {"approval", "evaluation"}
  PROVE  Running' /\ pc' \in Stage /\ pc' \notin {"out", "observation", "sandbox"}
  <1>1. /\ pc' = After(pc) /\ ctx' = FieldsAt[pc] \cup {pc}
        /\ stages' = Append(TraceOf(Passed[pc]), pc)
        /\ plan' \in Action \X Target
    BY DEF Running, Proceed, Stage
  <1>2. stages' = TraceOf(Passed[pc] + 1)
    BY <1>1, NamesAre, TraceGrows
  <1>3. /\ Passed[pc'] = Passed[pc] + 1
        /\ pc' \in Stage /\ pc' \notin {"out", "observation", "sandbox"}
    BY <1>1, StagesAre DEF Passed, Stage
  <1>4. FieldsAt[pc'] = FieldsAt[pc] \cup {pc}
    <2>1. CASE pc \in {"observation", "vision_evaluation", "decision", "planning"}
      BY <1>1, <2>1, StagesAre DEF FieldsAt, Required
    <2>2. CASE pc \in {"confirmation", "sandbox", "reflection"}
      BY <1>1, <2>2, StagesAre DEF FieldsAt, Required
    <2>3. QED
      BY <2>1, <2>2 DEF Stage
  <1>5. QED
    BY <1>1, <1>2, <1>3, <1>4 DEF Running

\* The validator accepts what a run leaves that went through every stage.
LEMMA CompleteIsValid ==
  Valid(FieldsAt["evaluation"] \cup {"evaluation"},
        Append(TraceOf(Passed["evaluation"]), "evaluation"), "COMPLETED")
  <1> DEFINE f == FieldsAt["evaluation"] \cup {"evaluation"}
             t == Append(TraceOf(Passed["evaluation"]), "evaluation")
             Place == [observation |-> 1, vision_evaluation |-> 2, knowledge |-> 3,
                       decision |-> 4, planning |-> 5, confirmation |-> 6,
                       sandbox |-> 7, reflection |-> 8, evaluation |-> 9]
  <1>1. f = Required \cup {"approval", "sandbox", "reflection", "evaluation"}
    BY DEF FieldsAt
  <1>2. DOMAIN t = 1..8 /\ \A i \in 1..8 : t[i] = FullTrace[i]
    <2>1. Passed["evaluation"] = 7 /\ FullTrace[7 + 1] = "evaluation"
      BY DEF Passed, FullTrace
    <2>2. Append(TraceOf(7), FullTrace[7 + 1]) = TraceOf(7 + 1)
      BY TraceGrows
    <2>3. t = TraceOf(8)
      BY <2>1, <2>2
    <2>4. QED
      BY <2>3 DEF TraceOf
  <1>3. DOMAIN ValidStages = 1..9
    BY DEF ValidStages
  <1>4. \A x \in 1..9 : Place[ValidStages[x]] = x
    <2>1. 1..9 = {1, 2, 3, 4, 5, 6, 7, 8, 9}
      OBVIOUS
    <2>2. QED
      BY <2>1 DEF ValidStages
  <1>5. \A i \in 1..8 : Place[FullTrace[i]] = IF i <= 2 THEN i ELSE i + 1
    <2>1. 1..8 = {1, 2, 3, 4, 5, 6, 7, 8}
      OBVIOUS
    <2>2. QED
      BY <2>1 DEF FullTrace
  <1>6. \A i \in 1..8 : FullTrace[i] \in ToSet(ValidStages)
    <2>1. \A i \in 1..8 : FullTrace[i] = ValidStages[IF i <= 2 THEN i ELSE i + 1]
      <3>1. 1..8 = {1, 2, 3, 4, 5, 6, 7, 8}
        OBVIOUS
      <3>2. QED
        BY <3>1 DEF FullTrace, ValidStages
    <2>2. \A i \in 1..8 : (IF i <= 2 THEN i ELSE i + 1) \in 1..9
      OBVIOUS
    <2>3. QED
      BY <1>3, <2>1, <2>2 DEF ToSet
  <1> HIDE DEF f, t, Place
  <1>7. \A i, j \in DOMAIN t, x, y \in DOMAIN ValidStages :
          i < j /\ t[i] = ValidStages[x] /\ t[j] = ValidStages[y] => x < y
    <2> SUFFICES ASSUME NEW i \in 1..8, NEW j \in 1..8, NEW x \in 1..9, NEW y \in 1..9,
                        i < j, t[i] = ValidStages[x], t[j] = ValidStages[y]
                 PROVE  x < y
      BY <1>2, <1>3
    <2>1. /\ x = (IF i <= 2 THEN i ELSE i + 1)
          /\ y = (IF j <= 2 THEN j ELSE j + 1)
      BY <1>2, <1>4, <1>5
    <2>2. QED
      BY <2>1
  <1>8. Valid(f, t, "COMPLETED")
    BY <1>1, <1>2, <1>6, <1>7 DEF Valid, Required
  <1>9. QED
    BY <1>8 DEF f, t

-----------------------------------------------------------------------------
\* The verdict of an earlier run stays right.
LEMMA VerdictKept ==
  ASSUME LoopInv, AuthInv', Kept, last' = last
  PROVE  /\ VerdictFits' /\ CompletedAsConfirmed'
         /\ last.request <= Len(request')
  <1>1. VerdictFits'
    BY DEF LoopInv, VerdictFits
  <1>2. CompletedAsConfirmed'
    <2> SUFFICES ASSUME last.final = "COMPLETED"
                 PROVE  \E d \in done' :
                          /\ token'[d.token].request = last.request
                          /\ d.action = request'[last.request].action
                          /\ d.target = request'[last.request].target
      BY DEF CompletedAsConfirmed
    <2>1. PICK d \in done : /\ token[d.token].request = last.request
                            /\ d.action = request[last.request].action
                            /\ d.target = request[last.request].target
      BY DEF LoopInv, CompletedAsConfirmed
    <2>2. d.token \in DOMAIN token
      BY DEF LoopInv, AuthInv, ExecutedWithPermission
    <2>3. last.request \in DOMAIN request
      BY <2>1, <2>2 DEF LoopInv, AuthInv, AuthTypeOK
    <2>4. d \in done' /\ token'[d.token] = token[d.token]
      BY <2>2 DEF Kept
    <2>5. QED
      BY <2>1, <2>3, <2>4 DEF Kept
  <1>3. last.request <= Len(request')
    <2>1. /\ request \in Seq(Request) /\ request' \in Seq(Request)
          /\ DOMAIN request \subseteq DOMAIN request'
      BY DEF LoopInv, AuthInv, AuthTypeOK, Kept
    <2>2. last.request \in Nat /\ last.request <= Len(request)
      BY AuthAssumption DEF LoopInv
    <2>3. CASE last.request = 0
      BY <2>1, <2>3
    <2>4. CASE last.request # 0
      <3>1. last.request \in DOMAIN request
        BY <2>1, <2>2, <2>4
      <3>2. QED
        BY <2>1, <3>1
    <2>5. QED
      BY <2>3, <2>4
  <1>4. QED
    BY <1>1, <1>2, <1>3

\* The end of a run: nothing is valid without its request, a failure leaves
\* nothing, a completed run everything.
LEMMA ConcludeKeeps ==
  ASSUME LoopInv, AuthInv', Kept, Len(request') <= MaxRequests,
         NEW fields, NEW trace, NEW final \in {"COMPLETED", "BLOCKED", "FAILED"},
         Conclude(fields, trace, final),
         cur \in Nat, cur <= Len(request'),
         "confirmation" \in fields => cur # 0,
         final = "FAILED" => fields = {},
         final = "COMPLETED" =>
           /\ Valid(fields, trace, final)
           /\ \E d \in done' : /\ token'[d.token].request = cur
                               /\ d.action = request'[cur].action
                               /\ d.target = request'[cur].target
  PROVE  LoopInv'
  <1>1. /\ pc' = "out" /\ Running' /\ Owned'
    BY DEF Conclude, Running, Owned
  <1>2. request' \in Seq(Request) /\ Len(request') \in Nat /\ MaxRequests \in Nat
    BY AuthAssumption DEF AuthInv, AuthTypeOK
  <1>3. CASE last' = last
    BY <1>1, <1>2, <1>3, VerdictKept DEF LoopInv
  <1>4. CASE last' = [final |-> final, valid |-> Valid(fields, trace, final), request |-> cur]
    <2>1. Valid(fields, trace, final) \in BOOLEAN
      BY DEF Valid
    <2>2. Valid(fields, trace, final) => "confirmation" \in fields
      BY DEF Valid, Required
    <2>3. /\ last'.final = final /\ last'.request = cur
          /\ last'.valid = Valid(fields, trace, final)
      BY <1>4
    <2> HIDE DEF Valid
    <2>4. VerdictFits'
      BY <2>2, <2>3 DEF VerdictFits
    <2>5. CompletedAsConfirmed'
      BY <2>3 DEF CompletedAsConfirmed
    <2>6. cur \in 0..MaxRequests
      BY <1>2
    <2>7. last' \in [final : {"none", "COMPLETED", "BLOCKED", "FAILED"},
                     valid : BOOLEAN, request : 0..MaxRequests]
      BY <1>4, <2>1, <2>6
    <2>8. QED
      BY <1>1, <2>3, <2>4, <2>5, <2>7 DEF LoopInv
  <1>5. QED
    BY <1>3, <1>4 DEF Conclude

-----------------------------------------------------------------------------
\* A step within a run.
LEMMA GoesOn ==
  ASSUME LoopInv, AuthInv', Kept, Len(request') <= MaxRequests, last' = last,
         pc' \in Stage \cup {"out"}, Running', Owned'
  PROVE  LoopInv'
  BY VerdictKept, StagesAre DEF LoopInv

\* No step makes more requests than there may be.
LEMMA Bounded ==
  ASSUME LoopInv, AuthStep
  PROVE  AuthInv' /\ Kept /\ Len(request') <= MaxRequests
  <1>1. AuthInv /\ AuthInv' /\ Kept /\ Len(request) <= MaxRequests /\ request \in Seq(Request)
    BY AuthStepKeeps DEF LoopInv, AuthInv, AuthTypeOK
  <1>2. ASSUME NEW a \in Action, NEW t \in Target, CreateRequest(a, t, "PENDING")
        PROVE  Len(request') <= MaxRequests
    BY <1>1, <1>2, AuthAssumption DEF CreateRequest
  <1>3. ASSUME NEW r \in DOMAIN request, Approve(r) \/ Reject(r) \/ Expire(r)
        PROVE  Len(request') <= MaxRequests
    <2>1. PICK x : request' = [request EXCEPT ![r].status = x]
      BY <1>3 DEF Approve, Reject, Expire
    <2>2. request' \in Seq(Request) /\ DOMAIN request' = DOMAIN request
      BY <1>1, <2>1 DEF AuthInv, AuthTypeOK
    <2>3. Len(request') = Len(request)
      BY <1>1, <2>2, LenProperties
    <2>4. QED
      BY <1>1, <2>3
  <1>4. CASE request' = request
    BY <1>1, <1>4
  <1>5. QED
    BY <1>1, <1>2, <1>3, <1>4 DEF AuthStep, Tick, authVars

\* The numbers of requests a run carries.
LEMMA OwnNumber ==
  ASSUME LoopInv
  PROVE  /\ cur \in Nat /\ cur <= Len(request)
         /\ pc \notin {"approval", "sandbox", "reflection", "evaluation"} => cur = 0
         /\ pc \in {"approval", "sandbox", "reflection", "evaluation"} =>
              cur \in DOMAIN request /\ cur # 0
  <1>1. request \in Seq(Request)
    BY DEF LoopInv, AuthInv, AuthTypeOK
  <1>2. pc \in Stage \cup {"out"}
    BY StagesAre DEF LoopInv
  <1>3. CASE pc \in {"approval", "sandbox", "reflection", "evaluation"}
    BY <1>1, <1>3 DEF LoopInv, Owned
  <1>4. CASE pc \notin {"approval", "sandbox", "reflection", "evaluation"}
    <2>1. cur = 0
      BY <1>2, <1>4 DEF LoopInv, Owned, Running, Stage
    <2>2. QED
      BY <1>1, <1>4, <2>1
  <1>5. QED
    BY <1>3, <1>4

\* The fields of a run that has not confirmed name no confirmation.
LEMMA FieldsTell ==
  ASSUME LoopInv, pc # "out"
  PROVE  /\ "confirmation" \in ctx => pc \in {"approval", "sandbox", "reflection", "evaluation"}
         /\ ctx = FieldsAt[pc] /\ stages = TraceOf(Passed[pc])
         /\ plan \in Action \X Target /\ plan[1] \in Action /\ plan[2] \in Target
         /\ pc \in Stage
  <1>1. /\ ctx = FieldsAt[pc] /\ stages = TraceOf(Passed[pc])
        /\ plan \in Action \X Target /\ pc \in Stage
    BY StagesAre DEF LoopInv, Running
  <1>2. "confirmation" \in FieldsAt[pc]
          => pc \in {"approval", "sandbox", "reflection", "evaluation"}
    BY <1>1 DEF FieldsAt, Stage
  <1>3. QED
    BY <1>1, <1>2

\* A run that ends without completing.
LEMMA EndsShort ==
  ASSUME LoopInv, AuthStep, pc # "out",
         \/ Block(ctx, stages)
         \/ Fail
         \/ pc = "vision_evaluation" /\ Block(ctx \cup {pc}, Append(stages, pc))
  PROVE  LoopInv'
  <1>1. AuthInv' /\ Kept /\ Len(request') <= MaxRequests
    BY Bounded
  <1>2. cur \in Nat /\ cur <= Len(request')
    <2>1. /\ request \in Seq(Request) /\ request' \in Seq(Request)
          /\ DOMAIN request \subseteq DOMAIN request'
      BY <1>1 DEF LoopInv, AuthInv, AuthTypeOK, Kept
    <2>2. CASE cur = 0
      BY <2>1, <2>2
    <2>3. CASE cur # 0
      <3>1. cur \in DOMAIN request
        BY <2>3, OwnNumber
      <3>2. QED
        BY <2>1, <3>1
    <2>4. QED
      BY <2>2, <2>3
  <1>3. "confirmation" \in ctx => cur # 0
    BY FieldsTell, OwnNumber
  <1>4. CASE Block(ctx, stages)
    BY <1>1, <1>2, <1>3, <1>4, ConcludeKeeps DEF Block
  <1>5. CASE Fail
    BY <1>1, <1>2, <1>5, ConcludeKeeps DEF Fail
  <1>6. CASE pc = "vision_evaluation" /\ Block(ctx \cup {pc}, Append(stages, pc))
    BY <1>1, <1>2, <1>3, <1>6, ConcludeKeeps DEF Block
  <1>7. QED
    BY <1>4, <1>5, <1>6

-----------------------------------------------------------------------------
\* The beginning of a run keeps the invariant;
LEMMA BeginKeeps == ASSUME LoopInv, Begin PROVE LoopInv' /\ Kept
  <1>1. AuthInv' /\ Kept /\ Len(request') <= MaxRequests
    BY Bounded DEF Begin, AuthStep
  <1>2. pc' = "observation" /\ plan' \in Action \X Target /\ UNCHANGED <<cur, ctx, stages, last>>
    BY StagesAre DEF Begin
  <1>3. cur = 0 /\ ctx = {} /\ stages = <<>>
    BY DEF Begin, LoopInv, Running
  <1>4. TraceOf(0) = <<>>
    BY DEF TraceOf
  <1>5. Running' /\ Owned'
    BY <1>2, <1>3, <1>4 DEF Running, Owned, FieldsAt, Passed
  <1>6. QED
    BY <1>1, <1>2, <1>5, GoesOn DEF Stage

\* so do the stages up to the plan,
LEMMA ThinkKeeps == ASSUME LoopInv, Think PROVE LoopInv' /\ Kept
  <1>1. AuthStep /\ pc # "out"
    BY DEF Think, AuthStep
  <1>2. AuthInv' /\ Kept /\ Len(request') <= MaxRequests
    BY <1>1, Bounded
  <1>3. CASE Proceed /\ UNCHANGED cur
    <2>1. /\ Running' /\ pc' \in Stage
          /\ pc' \in {"vision_evaluation", "decision", "planning", "confirmation"}
      BY <1>3, ProceedRuns, StagesAre, FieldsTell, <1>1 DEF Think, LoopInv, Proceed
    <2>2. cur' = 0 /\ last' = last
      BY <1>3, OwnNumber DEF Think, Proceed
    <2>3. Owned'
      BY <2>1, <2>2 DEF Owned
    <2>4. QED
      BY <1>2, <2>1, <2>2, <2>3, GoesOn
  <1>4. QED
    BY <1>1, <1>2, <1>3, EndsShort DEF Think

\* the request for confirmation,
LEMMA ConfirmKeeps == ASSUME LoopInv, Confirm PROVE LoopInv' /\ Kept
  <1>1. pc = "confirmation" /\ plan[1] \in Action /\ plan[2] \in Target /\ pc \in Stage
    BY FieldsTell DEF Confirm
  <1>2. AuthStep
    BY <1>1 DEF Confirm, AuthStep, authVars
  <1>3. AuthInv' /\ Kept /\ Len(request') <= MaxRequests
    BY <1>2, Bounded
  <1>4. CASE /\ CreateRequest(plan[1], plan[2], "PENDING")
             /\ cur' = Len(request') /\ Proceed
    <2>1. Running' /\ pc' = "approval" /\ pc' \in Stage
      BY <1>1, <1>4, ProceedRuns, StagesAre DEF LoopInv, Proceed
    <2>2. plan' = plan /\ last' = last
      BY <1>4 DEF Proceed
    <2> DEFINE q == [status |-> "PENDING", action |-> plan[1], target |-> plan[2]]
    <2>3. request \in Seq(Request) /\ q \in Request /\ request' = Append(request, q)
      BY <1>1, <1>4 DEF LoopInv, AuthInv, AuthTypeOK, CreateRequest, Request, Status
    <2>4. q.action = plan[1] /\ q.target = plan[2]
      OBVIOUS
    <2> HIDE DEF q
    <2>5. cur' \in DOMAIN request' /\ request'[cur'] = q
      BY <1>4, <2>3
    <2>6. Owned'
      BY <2>1, <2>2, <2>4, <2>5 DEF Owned
    <2>7. QED
      BY <1>3, <2>1, <2>2, <2>6, GoesOn
  <1>5. QED
    BY <1>1, <1>2, <1>3, <1>4, EndsShort DEF Confirm

\* the approval,
LEMMA AuthorizeKeeps == ASSUME LoopInv, Authorize PROVE LoopInv' /\ Kept
  <1>1. pc = "approval" /\ pc # "out" /\ cur \in DOMAIN request
    BY OwnNumber DEF Authorize
  <1>2. AuthStep
    BY <1>1 DEF Authorize, AuthStep
  <1>3. AuthInv' /\ Kept /\ Len(request') <= MaxRequests
    BY <1>2, Bounded
  <1>4. CASE /\ Approve(cur) /\ UNCHANGED <<now, done>>
             /\ pc' = After(pc) /\ ctx' = ctx \cup {pc}
             /\ UNCHANGED <<plan, cur, stages, last>>
    <2>1. pc' = "sandbox" /\ pc' \in Stage
      BY <1>1, <1>4, StagesAre DEF Stage
    <2>2. Running'
      BY <1>1, <1>4, <2>1, FieldsTell DEF Running, FieldsAt, Passed
    <2>3. token' # <<>> /\ token'[Len(token')].request = cur
      BY <1>1, <1>4, ApproveKeeps DEF LoopInv
    <2>4. /\ cur \in DOMAIN request' /\ request'[cur].action = plan[1]
          /\ request'[cur].target = plan[2]
      BY <1>1, <1>3 DEF LoopInv, Owned, Kept
    <2>5. Owned'
      BY <1>4, <2>1, <2>3, <2>4 DEF Owned
    <2>6. QED
      BY <1>3, <1>4, <2>1, <2>2, <2>5, GoesOn
  <1>5. QED
    BY <1>1, <1>2, <1>3, <1>4, EndsShort DEF Authorize

\* the sandbox,
LEMMA RunSandboxKeeps == ASSUME LoopInv, RunSandbox PROVE LoopInv' /\ Kept
  <1> DEFINE k == Len(token)
             scope == <<token[k].action, token[k].target>>
  <1>1. /\ pc = "sandbox" /\ pc # "out" /\ plan[1] \in Action /\ plan[2] \in Target
        /\ pc \in Stage
    BY FieldsTell DEF RunSandbox
  <1>2. k \in DOMAIN token /\ token[k] \in Token /\ scope \in Action \X Target
    <2>1. token \in Seq(Token) /\ token # <<>>
      BY <1>1 DEF LoopInv, AuthInv, AuthTypeOK, Owned
    <2>2. k \in DOMAIN token /\ token[k] \in Token
      BY <2>1
    <2>3. QED
      BY <2>2 DEF Token
  <1>3. \/ Execute(k, plan[1], plan[2], scope) /\ UNCHANGED <<now, request, token>>
        \/ UNCHANGED authVars
    BY DEF RunSandbox
  <1> HIDE DEF scope
  <1>4. AuthStep
    <2>1. CASE Execute(k, plan[1], plan[2], scope) /\ UNCHANGED <<now, request, token>>
      <3>1. scope \in {<<>>} \cup (Action \X Target)
        BY <1>2
      <3>2. QED
        BY <1>1, <1>2, <2>1, <3>1 DEF AuthStep
    <2>2. QED
      BY <1>3, <2>1 DEF AuthStep
  <1>5. AuthInv' /\ Kept /\ Len(request') <= MaxRequests
    BY <1>4, Bounded
  <1>6. CASE /\ Execute(k, plan[1], plan[2], scope) /\ UNCHANGED <<now, request, token>>
             /\ Proceed /\ UNCHANGED cur
    <2>1. Running' /\ pc' = "reflection" /\ pc' \in Stage /\ last' = last /\ plan' = plan
      BY <1>1, <1>6, ProceedRuns, StagesAre DEF LoopInv, Proceed
    <2>2. [token |-> k, action |-> plan[1], target |-> plan[2], at |-> now] \in done'
      BY <1>6 DEF Execute
    <2>3. \E d \in done' : d.token = k /\ d.action = plan[1] /\ d.target = plan[2]
      BY <2>2
    <2>4. Owned'
      BY <1>1, <1>6, <2>1, <2>3 DEF LoopInv, Owned
    <2>5. QED
      BY <1>5, <2>1, <2>4, GoesOn
  <1>7. \/ /\ Execute(k, plan[1], plan[2], scope) /\ UNCHANGED <<now, request, token>>
           /\ Proceed /\ UNCHANGED cur
        \/ Block(ctx, stages)
        \/ Fail
    BY DEF RunSandbox, scope
  <1>8. QED
    BY <1>1, <1>4, <1>5, <1>6, <1>7, EndsShort

\* the reflection and the conclusion,
LEMMA ReflectKeeps == ASSUME LoopInv, Reflect PROVE LoopInv' /\ Kept
  <1>1. UNCHANGED authVars /\ AuthStep /\ pc # "out" /\ pc \in Stage
    BY FieldsTell DEF Reflect, AuthStep
  <1>2. AuthInv' /\ Kept /\ Len(request') <= MaxRequests
    BY <1>1, Bounded
  <1>3. CASE pc = "reflection" /\ Proceed /\ UNCHANGED cur
    <2>1. Running' /\ pc' = "evaluation" /\ pc' \in Stage /\ last' = last /\ plan' = plan
      BY <1>1, <1>3, ProceedRuns, StagesAre DEF LoopInv, Proceed
    <2>2. Owned'
      BY <1>1, <1>3, <2>1 DEF LoopInv, Owned, authVars
    <2>3. QED
      BY <1>2, <2>1, <2>2, GoesOn
  <1>4. CASE /\ pc = "evaluation"
             /\ Conclude(ctx \cup {pc}, Append(stages, pc), "COMPLETED")
    <2>1. Valid(ctx \cup {pc}, Append(stages, pc), "COMPLETED")
      BY <1>4, FieldsTell, CompleteIsValid
    <2>2. PICK d \in done : d.token = Len(token) /\ d.action = plan[1] /\ d.target = plan[2]
      BY <1>4 DEF LoopInv, Owned
    <2>3. /\ token[d.token].request = cur
          /\ d.action = request[cur].action /\ d.target = request[cur].target
      BY <1>4, <2>2 DEF LoopInv, Owned
    <2>4. \E x \in done' : /\ token'[x.token].request = cur
                           /\ x.action = request'[cur].action
                           /\ x.target = request'[cur].target
      BY <1>1, <2>3 DEF authVars
    <2>5. cur \in Nat /\ cur <= Len(request') /\ cur # 0
      BY <1>1, <1>4, OwnNumber DEF authVars
    <2>6. QED
      BY <1>2, <1>4, <2>1, <2>4, <2>5, ConcludeKeeps
  <1>5. QED
    BY <1>1, <1>2, <1>3, <1>4, EndsShort DEF Reflect

\* users and other callers that act between runs,
LEMMA OthersKeep == ASSUME LoopInv, Others PROVE LoopInv' /\ Kept
  <1>1. AuthStep
    BY DEF Others, AuthStep, UserApproves, UserRejects, SomeoneExpires, SomeoneExecutes
  <1>2. AuthInv' /\ Kept /\ Len(request') <= MaxRequests
    BY <1>1, Bounded
  <1>3. pc' = "out" /\ UNCHANGED <<plan, cur, ctx, stages, last>> /\ pc = "out"
    BY DEF Others, loopVars
  <1>4. Running' /\ Owned'
    BY <1>3 DEF LoopInv, Running, Owned
  <1>5. QED
    BY <1>2, <1>3, <1>4, GoesOn

\* and time.
LEMMA TimeStepKeeps == ASSUME LoopInv, Time \/ UNCHANGED vars PROVE LoopInv' /\ Kept
  <1>1. AuthStep /\ UNCHANGED <<request, token, done, pc, plan, cur, ctx, stages, last>>
    BY DEF Time, Tick, AuthStep, loopVars, vars, authVars
  <1>2. AuthInv' /\ Kept /\ Len(request') <= MaxRequests
    BY <1>1, Bounded
  <1>3. Running' /\ Owned'
    BY <1>1 DEF LoopInv, Running, Owned
  <1>4. pc' \in Stage \cup {"out"}
    BY <1>1, StagesAre DEF LoopInv
  <1>5. QED
    BY <1>1, <1>2, <1>3, <1>4, GoesOn

-----------------------------------------------------------------------------
\* At first there is no run, no request and no verdict.
LEMMA StartsLoop == Init => LoopInv
  <1> SUFFICES ASSUME Init PROVE LoopInv
    OBVIOUS
  <1>1. /\ now = 0 /\ request = <<>> /\ token = <<>> /\ done = {}
        /\ request \in Seq(Request) /\ token \in Seq(Token)
        /\ DOMAIN token = {} /\ Len(request) = 0
    BY DEF Init, AuthInit
  <1>2. AuthInv
    BY <1>1, AuthAssumption
    DEF AuthInv, AuthTypeOK, TokensFit, ExecutedWithPermission
  <1>3. /\ pc = "out" /\ plan = <<>> /\ cur = 0 /\ ctx = {} /\ stages = <<>>
        /\ last = [final |-> "none", valid |-> FALSE, request |-> 0]
    BY DEF Init
  <1>4. Running /\ Owned
    BY <1>3 DEF Running, Owned
  <1>5. VerdictFits /\ CompletedAsConfirmed
    BY <1>3 DEF VerdictFits, CompletedAsConfirmed
  <1>6. QED
    BY <1>1, <1>2, <1>3, <1>4, <1>5, AuthAssumption DEF LoopInv

\* Every step keeps the invariant and undoes nothing.
LEMMA LoopStepKeeps ==
  ASSUME LoopInv, [Next]_vars
  PROVE  LoopInv' /\ Kept
  BY BeginKeeps, ThinkKeeps, ConfirmKeeps, AuthorizeKeeps, RunSandboxKeeps, ReflectKeeps,
     OthersKeep, TimeStepKeeps
  DEF Next

\* The inductive invariant, and what no step undoes.
THEOREM LoopInvariance == Spec => []LoopInv /\ [][Kept]_vars
  <1>1. LoopInv /\ [Next]_vars => LoopInv' /\ [Kept]_vars
    BY LoopStepKeeps
  <1>2. QED
    BY StartsLoop, <1>1, PTL DEF Spec

\* Every variable of the loop, the confirmations and the sandbox keeps its
\* type; a token always names a request that exists.
THEOREM LoopTypes == Spec => []TypeOK
  <1>1. ASSUME LoopInv PROVE TypeOK
    <2>1. AuthTypeOK /\ pc \in ToSet(Order) \cup {"out"}
      BY <1>1 DEF LoopInv, AuthInv
    <2>2. plan \in (Action \X Target) \cup {<<>>}
      BY <1>1 DEF LoopInv, Running
    <2>3. cur \in 0..MaxRequests
      <3>1. Len(request) \in Nat /\ Len(request) <= MaxRequests /\ MaxRequests \in Nat
        BY <1>1, AuthAssumption DEF LoopInv, AuthInv, AuthTypeOK
      <3>2. cur \in Nat /\ cur <= Len(request)
        BY <1>1, OwnNumber
      <3>3. QED
        BY <3>1, <3>2
    <2>4. ctx \subseteq Stage /\ stages \in Seq(Stage \cup {"error"})
      <3>1. CASE pc = "out"
        BY <1>1, <3>1 DEF LoopInv, Running
      <3>2. CASE pc # "out"
        <4>1. ctx = FieldsAt[pc] /\ stages = TraceOf(Passed[pc]) /\ pc \in Stage
          BY <1>1, <3>2, FieldsTell
        <4>2. FieldsAt[pc] \subseteq Stage
          BY <4>1 DEF FieldsAt, Required, Stage
        <4>3. Passed[pc] \in 0..8
          BY <4>1 DEF Passed, Stage
        <4>4. \A i \in 1..8 : FullTrace[i] \in Stage
          <5>1. 1..8 = {1, 2, 3, 4, 5, 6, 7, 8}
            OBVIOUS
          <5>2. QED
            BY <5>1 DEF FullTrace, Stage
        <4>5. TraceOf(Passed[pc]) \in Seq(Stage \cup {"error"})
          BY <4>3, <4>4 DEF TraceOf
        <4>6. QED
          BY <4>1, <4>2, <4>5
      <3>3. QED
        BY <3>1, <3>2
    <2>5. QED
      BY <1>1, <2>1, <2>2, <2>3, <2>4, StagesAre DEF TypeOK, LoopInv
  <1>2. QED
    BY <1>1, LoopInvariance, PTL

\* Whatever is executed was allowed by policy, had been approved by somebody,
\* and its token had not expired then (SandboxValidator, ConfirmationManager).
THEOREM PermissionGiven == Spec => []ExecutedWithPermission
  <1>1. LoopInv => ExecutedWithPermission
    BY DEF LoopInv, AuthInv
  <1>2. QED
    BY <1>1, LoopInvariance, PTL

\* A request is decided once: no second token, no way back from a decision, and no
\* token but for a pending request.
THEOREM OneDecision == Spec => DecidedOnce
  <1>1. LoopInv => \A k, j \in DOMAIN token : token[k].request = token[j].request => k = j
    BY DEF LoopInv, AuthInv, TokensFit
  <1>2. [Kept]_vars
          => [\A r \in DOMAIN request :
                request'[r].status # request[r].status =>
                  \/ request[r].status = "PENDING"
                  \/ request'[r].status = "EXPIRED"]_authVars
    BY DEF Kept, vars
  <1>3. [Kept]_vars
          => [\A k \in DOMAIN token' \ DOMAIN token :
                token'[k].request \in DOMAIN request /\ request[token'[k].request].status = "PENDING"]_authVars
    BY DEF Kept, vars
  <1>4. QED
    BY <1>1, <1>2, <1>3, LoopInvariance, PTL DEF DecidedOnce

\* The validator's verdict fits what happened: every completed run is valid, no
\* failed one, and none that did not get as far as its confirmation.
THEOREM VerdictIsRight == Spec => []VerdictFits
  <1>1. LoopInv => VerdictFits
    BY DEF LoopInv
  <1>2. QED
    BY <1>1, LoopInvariance, PTL

\* A run reported COMPLETED executed the action and the target its own request
\* asked for, with that request's token.
THEOREM DoneAsConfirmed == Spec => []CompletedAsConfirmed
  <1>1. LoopInv => CompletedAsConfirmed
    BY DEF LoopInv
  <1>2. QED
    BY <1>1, LoopInvariance, PTL
-----------------------------------------------------------------------------
\* Advice: the kinds of opportunities there are.
OpportunityKinds ==
  {"NPC_INTERACTION", "RESOURCE_AVAILABLE", "TASK_PROGRESS", "SAFE_AREA", "NEW_DISCOVERY"}

\* What was reasoned about a state is reasoned of that state: its risk, the reference,
\* and opportunities of progress or safety only where it is seen clearly.
Weighed(m) ==
  /\ m.state \in {Collect(o) : o \in Observations}
  /\ m.risk = Risk(m.state)
  /\ m.reference = EnvironmentReference(m.opportunities, m.risk, m.goal)
  /\ m.opportunities \subseteq [type : OpportunityKinds, confidence : {m.state.confidence}]
  /\ \A o \in m.opportunities :
       o.type \in {"TASK_PROGRESS", "SAFE_AREA"} => m.state.confidence >= 70

\* A decision is built from the reference of the moment.
Decided(m, d) ==
  \E prevention \in Preventions, quality \in Qualities :
    d = BuildDecision(m.reference, prevention, quality, m.goal)

AtMostOne(set) == \A x, y \in set : x = y

\* Of a round there is at most one of each kind, each rests on the one before, and
\* what was aligned was aligned by the answers there are.
AdviceInv ==
  /\ history \in Seq({Collect(o) : o \in Observations})
  /\ DOMAIN memory = 1..Len(memory) /\ Len(memory) \in Nat
  /\ AtMostOne(moment) /\ AtMostOne(decision) /\ AtMostOne(aligned)
  /\ moment = {} => decision = {}
  /\ decision = {} => aligned = {}
  /\ aligned = {} => remembered = {}
  /\ \A m \in moment : Weighed(m)
  /\ \A m \in moment, d \in decision : Decided(m, d)
  /\ \A d \in decision, a \in aligned : a = Align(d, memory)

\* What the reasoner makes of a state fits it, whatever the history it is given.
LEMMA OpportunitiesFit ==
  ASSUME NEW s, NEW h, NEW npcs, NEW monsters, NEW goal,
         s \in {Collect(o) : o \in Observations}
  PROVE  Weighed([state |-> s, goal |-> goal, risk |-> Risk(s),
                  opportunities |-> Opportunities(s, h, npcs, monsters),
                  prediction |-> Predict(h),
                  reference |-> EnvironmentReference(Opportunities(s, h, npcs, monsters), Risk(s), goal)])
<1>1. Opportunities(s, h, npcs, monsters) \subseteq [type : OpportunityKinds, confidence : {s.confidence}]
  BY DEF Opportunities, OpportunityKinds
<1>2. \A o \in Opportunities(s, h, npcs, monsters) :
        o.type \in {"TASK_PROGRESS", "SAFE_AREA"} => s.confidence >= 70
  BY DEF Opportunities
<1> QED BY <1>1, <1>2 DEF Weighed


\* A look adds a collected state, and only between rounds.
LEMMA LookKeeps ==
  ASSUME AdviceInv, NEW o \in Observations, Look(o)
  PROVE  AdviceInv'
<1>1. PICK s \in {Collect(o)} : history' = Append(history, s)
  BY DEF Look
<1>2. history' \in Seq({Collect(x) : x \in Observations})
  BY <1>1, AppendProperties DEF AdviceInv
<1> QED BY <1>2 DEF AdviceInv, Look, AtMostOne, None

\* Reasoning starts a round that has nothing yet.
LEMMA ReasonAboutKeeps ==
  ASSUME AdviceInv, NEW k \in DOMAIN history, NEW goal \in Goals, ReasonAbout(k, goal)
  PROVE  AdviceInv'
<1> DEFINE s == history[k]
           opportunities == Opportunities(s, history, s.entities \cap Npcs, s.entities \cap Monsters)
           reasoned == [state |-> s, goal |-> goal, risk |-> Risk(s), opportunities |-> opportunities,
                        prediction |-> Predict(history),
                        reference |-> EnvironmentReference(opportunities, Risk(s), goal)]
<1>1. moment' = {reasoned} BY DEF ReasonAbout
<1>2. s \in {Collect(o) : o \in Observations} BY ElementOfSeq DEF AdviceInv
<1>3. Weighed(reasoned) BY <1>2, OpportunitiesFit
<1>4. moment = {} /\ decision = {} /\ aligned = {} /\ remembered = {}
  BY DEF ReasonAbout, AdviceInv, None
<1> HIDE DEF reasoned
<1>5. UNCHANGED <<history, decision, memory, aligned, remembered>> BY DEF ReasonAbout
<1>6. \A m \in moment' : Weighed(m) BY <1>1, <1>3
<1>7. (\A m \in moment : Weighed(m))' BY <1>6 DEF Weighed
<1> QED BY <1>1, <1>4, <1>5, <1>7 DEF AdviceInv, AtMostOne

\* A decision is of the only moment there is.
LEMMA DecideKeeps ==
  ASSUME AdviceInv, NEW prevention \in Preventions, NEW quality \in Qualities,
         Decide(prevention, quality)
  PROVE  AdviceInv'
<1>1. PICK m \in moment : decision' = {BuildDecision(m.reference, prevention, quality, m.goal)}
  BY DEF Decide
<1>2. moment = {m} /\ decision = {} /\ aligned = {} /\ remembered = {}
  BY <1>1 DEF Decide, AdviceInv, AtMostOne, None
<1>3. Decided(m, BuildDecision(m.reference, prevention, quality, m.goal)) BY DEF Decided
<1>4. UNCHANGED <<history, moment, memory, aligned, remembered>> BY DEF Decide
<1>5. \A d \in decision' : Decided(m, d) BY <1>1, <1>3
<1>6. (\A n \in moment, d \in decision : Decided(n, d))' BY <1>2, <1>4, <1>5 DEF Decided
<1>7. (\A n \in moment : Weighed(n))' BY <1>4 DEF AdviceInv, Weighed
<1> QED BY <1>1, <1>2, <1>4, <1>6, <1>7 DEF AdviceInv, AtMostOne

\* An answer is in the memory by the time the decision is aligned.
LEMMA AnswerKeeps ==
  ASSUME AdviceInv, NEW option, NEW action, Answer(option, action)
  PROVE  AdviceInv'
<1>1. PICK d \in decision : aligned' = {Align(d, memory')} /\ memory' = Process(memory, option, action)
  BY DEF Answer
<1>2. DOMAIN memory' = 1..Len(memory') /\ Len(memory') \in Nat
  BY <1>1 DEF Process, AdviceInv, Append
<1>3. moment # {} /\ decision = {d} /\ remembered = {} BY <1>1 DEF Answer, AdviceInv, AtMostOne, None
<1>4. UNCHANGED <<history, moment, decision, remembered>> BY DEF Answer
<1>5. (\A n \in moment : Weighed(n))' BY <1>4 DEF AdviceInv, Weighed
<1>6. (\A n \in moment, x \in decision : Decided(n, x))' BY <1>4 DEF AdviceInv, Decided
<1>7. (\A x \in decision, a \in aligned : a = Align(x, memory))' BY <1>1, <1>3, <1>4
<1> QED BY <1>1, <1>2, <1>3, <1>4, <1>5, <1>6, <1>7 DEF AdviceInv, AtMostOne

\* Without an answer the decision is aligned by those of before.
LEMMA NoAnswerKeeps ==
  ASSUME AdviceInv, NoAnswer
  PROVE  AdviceInv'
<1>1. PICK d \in decision : aligned' = {Align(d, memory)} BY DEF NoAnswer
<1>3. moment # {} /\ decision = {d} /\ remembered = {} BY <1>1 DEF NoAnswer, AdviceInv, AtMostOne, None
<1>4. UNCHANGED <<history, moment, decision, memory, remembered>> BY DEF NoAnswer
<1>5. (\A n \in moment : Weighed(n))' BY <1>4 DEF AdviceInv, Weighed
<1>6. (\A n \in moment, x \in decision : Decided(n, x))' BY <1>4 DEF AdviceInv, Decided
<1>7. (\A x \in decision, a \in aligned : a = Align(x, memory))' BY <1>1, <1>3, <1>4
<1> QED BY <1>1, <1>3, <1>4, <1>5, <1>6, <1>7 DEF AdviceInv, AtMostOne

\* Remembering changes nothing a round rests on; the next round starts with nothing.
LEMMA OtherAdviceKeeps ==
  ASSUME AdviceInv, Remember \/ NextRound \/ UNCHANGED adviceVars
  PROVE  AdviceInv'
<1>1. UNCHANGED <<history, memory>>
      /\ (\/ UNCHANGED <<moment, decision, aligned>> /\ aligned # {}
          \/ moment' = {} /\ decision' = {} /\ aligned' = {} /\ remembered' = {}
          \/ UNCHANGED <<moment, decision, aligned, remembered>>)
  BY DEF Remember, NextRound, adviceVars, None
<1>2. CASE UNCHANGED <<moment, decision, aligned>>
  <2>1. (\A n \in moment : Weighed(n))' BY <1>2 DEF AdviceInv, Weighed
  <2>2. (\A n \in moment, x \in decision : Decided(n, x))' BY <1>2 DEF AdviceInv, Decided
  <2> QED BY <1>1, <1>2, <2>1, <2>2 DEF AdviceInv, AtMostOne
<1>3. CASE moment' = {} /\ decision' = {} /\ aligned' = {} /\ remembered' = {}
  BY <1>1, <1>3 DEF AdviceInv, AtMostOne
<1> QED BY <1>1, <1>2, <1>3

\* Nothing has been looked at.
LEMMA AdviceStarts == AdviceInit => AdviceInv
BY DEF AdviceInit, AdviceInv, AtMostOne, None

\* AdviceInv is inductive.
LEMMA AdviceStepKeeps == AdviceInv /\ [AdviceNext]_adviceVars => AdviceInv'
<1> SUFFICES ASSUME AdviceInv, [AdviceNext]_adviceVars PROVE AdviceInv' OBVIOUS
<1>1. CASE \E o \in Observations : Look(o) BY <1>1, LookKeeps
<1>2. CASE \E k \in {Len(history) - 1, Len(history)} \cap DOMAIN history, goal \in Goals : ReasonAbout(k, goal)
  BY <1>2, ReasonAboutKeeps
<1>3. CASE \E prevention \in Preventions, quality \in Qualities : Decide(prevention, quality)
  BY <1>3, DecideKeeps
<1>4. CASE \E d \in decision : \E o \in d.recommended \cup d.alternatives :
             \E action \in Actions : Answer(o.id, action)
  BY <1>4, AnswerKeeps
<1>5. CASE NoAnswer BY <1>5, NoAnswerKeeps
<1>6. CASE Remember \/ NextRound \/ UNCHANGED adviceVars BY <1>6, OtherAdviceKeeps
<1> QED BY <1>1, <1>2, <1>3, <1>4, <1>5, <1>6 DEF AdviceNext

\* In every state advice rests on what was reasoned, and memory on what was advised.
THEOREM AdviceInvariance == AdviceSpec => []AdviceInv
<1>1. AdviceInv /\ [AdviceNext]_adviceVars => AdviceInv' BY AdviceStepKeeps
<1> QED BY <1>1, AdviceStarts, PTL DEF AdviceSpec

\* EnvironmentReasoningValidator: the reasoner contradicts itself only of a dangerous
\* place seen clearly, for an unclear one offers neither safety nor progress.
LEMMA NothingSafeInDanger ==
  ASSUME NEW m, Weighed(m), ReasoningIssues(m.opportunities, m.risk) # {}
  PROVE  m.state.location \in Dangerous /\ m.state.confidence >= 70
<1>1. PICK o \in m.opportunities : m.risk = "HIGH" /\ o.type \in {"SAFE_AREA", "TASK_PROGRESS"}
  BY DEF ReasoningIssues
<1>2. m.state.confidence >= 70 BY <1>1 DEF Weighed
<1>3. PICK x \in Observations : m.state = Collect(x) BY DEF Weighed
<1>4. m.state.confidence = x.confidence BY <1>3 DEF Collect, EnvironmentState
<1>5. m.state.confidence \in Int BY <1>4, AdviceConstants
<1> QED BY <1>1, <1>2, <1>5 DEF Weighed, Risk

\* EnvironmentRiskAdapter to DecisionRiskIntegrator: high risk leaves a note, and
\* blocks the goal if there is one.
LEMMA DangerIsHeeded ==
  ASSUME NEW m, NEW d, Weighed(m), Decided(m, d), m.risk = "HIGH"
  PROVE  d.level # "LOW" /\ (m.goal # NoGoal => d.recommended = {})
<1>1. PICK p \in Preventions, q \in Qualities : d = BuildDecision(m.reference, p, q, m.goal)
  BY DEF Decided
<1>2. m.reference.notes = {"blocked"} /\ m.reference.blocked = {m.goal} \ {NoGoal}
  BY DEF Weighed, EnvironmentReference, Constraint
<1>3. d.level = RiskLevel(m.reference, p)
      /\ d.recommended = Options(m.reference, Notes(m.reference, p), m.goal).recommended
  BY <1>1 DEF BuildDecision, Notes
<1>4. d.level # "LOW" BY <1>2, <1>3 DEF RiskLevel
<1>5. ASSUME m.goal # NoGoal PROVE d.recommended = {}
  <2>1. RiskLevel(m.reference, p) = "HIGH" BY <1>2, <1>5 DEF RiskLevel
  <2> QED BY <1>3, <2>1 DEF Options, Notes
<1> QED BY <1>4, <1>5

\* HumanAlignmentAligner: of nothing recommended only accepted alternatives are
\* preferred, and of what is rejected too.
LEMMA AnswersAreHeeded ==
  ASSUME NEW d, NEW given
  PROVE  /\ d.recommended = {} =>
              {o.id : o \in Preferred(d, given)} \subseteq Accepted(given)
         /\ AlignmentIssues(Align(d, given)) \subseteq
              {o.id : o \in d.alternatives} \cap Accepted(given)
BY DEF Preferred, AlignmentIssues, Align

\* Danger is never taken for low risk, with a goal to block nothing is recommended,
\* and what is both rejected and preferred is an alternative the user also took: in
\* every behaviour, for all observations, goals, answers and experiences.
THEOREM AdviceIsConsistent == AdviceSpec => []AdviceConsistent
<1>1. AdviceInv => AdviceConsistent
  <2> SUFFICES ASSUME AdviceInv, NEW m \in moment
               PROVE  /\ ReasoningIssues(m.opportunities, m.risk) # {} =>
                           m.state.location \in Dangerous /\ m.state.confidence >= 70
                      /\ \A d \in decision :
                           /\ m.risk = "HIGH" => d.level # "LOW"
                           /\ m.risk = "HIGH" /\ m.goal # NoGoal => d.recommended = {}
                           /\ \A a \in aligned :
                                /\ m.risk = "HIGH" /\ m.goal # NoGoal =>
                                     {o.id : o \in a.preferred} \subseteq Accepted(memory)
                                /\ AlignmentIssues(a) \subseteq {o.id : o \in d.alternatives} \cap Accepted(memory)
    BY DEF AdviceConsistent
  <2>1. Weighed(m) BY DEF AdviceInv
  <2>2. ReasoningIssues(m.opportunities, m.risk) # {} =>
          m.state.location \in Dangerous /\ m.state.confidence >= 70
    BY <2>1, NothingSafeInDanger
  <2>3. ASSUME NEW d \in decision
        PROVE  m.risk = "HIGH" => d.level # "LOW" /\ (m.goal # NoGoal => d.recommended = {})
    BY <2>1, DangerIsHeeded DEF AdviceInv
  <2>4. ASSUME NEW d \in decision, NEW a \in aligned
        PROVE  /\ m.risk = "HIGH" /\ m.goal # NoGoal =>
                    {o.id : o \in a.preferred} \subseteq Accepted(memory)
               /\ AlignmentIssues(a) \subseteq {o.id : o \in d.alternatives} \cap Accepted(memory)
    <3>1. a = Align(d, memory) BY DEF AdviceInv
    <3>2. a.preferred = Preferred(d, memory) BY <3>1 DEF Align
    <3> QED BY <2>3, <3>1, <3>2, AnswersAreHeeded
  <2> QED BY <2>2, <2>3, <2>4
<1> QED BY <1>1, AdviceInvariance, PTL

-----------------------------------------------------------------------------
\* The limits are numbers.
LEMMA AdviceNumbers == Limit \in Nat /\ LastSnapshots \in Nat
BY AdviceConstants

\* The lower of two numbers is one of them and not above the other.
LEMMA LowestOfTwo ==
  ASSUME NEW a \in Int, NEW b \in Int
  PROVE  /\ Lowest({a, b}) \in {a, b} /\ Lowest({a, b}) <= a /\ Lowest({a, b}) <= b
<1>1. \E x \in {a, b} : \A y \in {a, b} : x <= y
  <2>1. CASE a <= b BY <2>1
  <2>2. CASE ~(a <= b) BY <2>2
  <2> QED BY <2>1, <2>2
<1> QED BY <1>1 DEF Lowest

\* The image of a finite set is finite.
LEMMA ImageIsFinite ==
  ASSUME NEW S, NEW f, IsFiniteSet(S)
  PROVE  IsFiniteSet({f[x] : x \in S})
<1> DEFINE T == {f[x] : x \in S}
           g == [x \in S |-> f[x]]
<1>1. g \in Surjection(S, T) BY DEF Surjection
<1> QED BY <1>1, FS_Surjection

\* MemoryRetriever.retrieve: as many as there is room for, and whatever scores more
\* than something retrieved is retrieved too.
LEMMA BestAreKept ==
  ASSUME NEW index, IsFiniteSet(index), NEW query,
         \A n \in index : Relevance(n, query) \in Int,
         NEW relevant \in Relevant(index, query)
  PROVE  /\ relevant \subseteq index
         /\ Cardinality(relevant) = Lowest({Limit, Cardinality(index)})
         /\ \A n \in relevant, w \in index :
              Relevance(w, query) > Relevance(n, query) => w \in relevant
<1> DEFINE score == [n \in index |-> Relevance(n, query)]
           entering == {n \in index : Cardinality({m \in index : score[m] > score[n]}) < Limit}
           certain == {n \in entering : Cardinality({m \in index : score[m] >= score[n]}) <= Limit}
           room == Lowest({Limit, Cardinality(index)}) - Cardinality(certain)
<1>1. PICK some \in SUBSET (entering \ certain) : Cardinality(some) = room /\ relevant = certain \cup some
  BY DEF Relevant, kSubset
<1>2. IsFiniteSet(certain) /\ IsFiniteSet(some)
  <2>1. certain \in SUBSET index /\ some \in SUBSET index BY <1>1
  <2> QED BY <2>1, FS_Subset
<1>3. Cardinality(relevant) = Cardinality(certain) + Cardinality(some)
  <2>1. certain \cap some = {} BY <1>1
  <2>2. Cardinality(certain \cap some) = 0 BY <2>1, FS_EmptySet
  <2> HIDE DEF certain
  <2>3. Cardinality(certain) \in Nat /\ Cardinality(some) \in Nat BY <1>2, FS_CardinalityType
  <2>4. Cardinality(certain \cup some) =
          Cardinality(certain) + Cardinality(some) - Cardinality(certain \cap some)
    BY <1>2, FS_Union
  <2> HIDE DEF room
  <2> QED BY <1>1, <2>2, <2>3, <2>4
<1>4. Cardinality(relevant) = Lowest({Limit, Cardinality(index)})
  <2> HIDE DEF certain
  <2>1. Cardinality(certain) \in Nat /\ Cardinality(index) \in Nat BY <1>2, FS_CardinalityType
  <2>2. Lowest({Limit, Cardinality(index)}) \in Int
    <3>1. Limit \in Int /\ Cardinality(index) \in Int BY <2>1, AdviceNumbers
    <3>2. Lowest({Limit, Cardinality(index)}) \in {Limit, Cardinality(index)}
      BY <3>1, LowestOfTwo, Zenon
    <3> QED BY <3>1, <3>2
  <2> QED BY <1>1, <1>3, <2>1, <2>2
<1>5. ASSUME NEW n \in relevant, NEW w \in index, score[w] > score[n] PROVE w \in relevant
  <2> DEFINE above(x) == {m \in index : score[m] > score[x]}
             from(x) == {m \in index : score[m] >= score[x]}
  <2>1. n \in entering BY <1>1
  <2>2. \A m \in index : score[m] \in Int OBVIOUS
  <2>3. from(w) \in SUBSET above(n) /\ above(w) \in SUBSET above(n)
    BY <1>5, <2>1, <2>2
  <2>4. IsFiniteSet(above(n))
    <3>1. above(n) \in SUBSET index OBVIOUS
    <3> QED BY <3>1, FS_Subset
  <2>5. Cardinality(from(w)) <= Cardinality(above(n)) /\ Cardinality(above(w)) <= Cardinality(above(n))
    <3> HIDE DEF above, from
    <3> QED BY <2>3, <2>4, FS_Subset
  <2>6. Cardinality(above(n)) \in Nat BY <2>4, FS_CardinalityType
  <2>7. Cardinality(from(w)) \in Nat /\ Cardinality(above(w)) \in Nat
    <3>1. from(w) \in SUBSET index /\ above(w) \in SUBSET index OBVIOUS
    <3>2. IsFiniteSet(from(w)) /\ IsFiniteSet(above(w)) BY <3>1, FS_Subset
    <3> HIDE DEF above, from
    <3> QED BY <3>2, FS_CardinalityType
  <2>8. Cardinality(above(n)) < Limit BY <2>1
  <2>9. Cardinality(from(w)) <= Limit /\ Cardinality(above(w)) < Limit
    <3> HIDE DEF above, from
    <3> QED BY <2>5, <2>6, <2>7, <2>8, AdviceNumbers
  <2>10. w \in certain BY <2>9
  <2> QED BY <1>1, <2>10
<1>6. relevant \subseteq index BY <1>1
<1> QED BY <1>4, <1>5, <1>6

-----------------------------------------------------------------------------
\* The history is a list of collected states.
LEMMA SnapshotsAre ==
  ASSUME AdviceInv
  PROVE  /\ Len(history) \in Nat /\ DOMAIN history = 1..Len(history)
         /\ \A i \in DOMAIN history : \E o \in Observations : history[i] = Collect(o)
BY LenProperties, ElementOfSeq DEF AdviceInv

\* MemoryConsolidator._world_nodes: the last snapshots, none before the first.
LEMMA WorldNodesAre ==
  ASSUME AdviceInv
  PROVE  \E k \in 0..Len(history) :
           /\ k = Len(history) - Lowest({LastSnapshots, Len(history)})
           /\ WorldNodes(history) =
                [i \in 1..(Len(history) - k) |->
                   MemoryNode(<<"world", i>>, "WORLD",
                              {<<"location", history[k + i].location>>, <<"history", "h">>},
                              {history[k + i].location} \cup history[k + i].entities,
                              history[k + i].confidence, 50)]
<1> DEFINE low == Lowest({LastSnapshots, Len(history)})
           k == Len(history) - low
<1>1. LastSnapshots \in Int /\ Len(history) \in Int /\ LastSnapshots >= 0 /\ Len(history) >= 0
  BY SnapshotsAre, AdviceNumbers
<1>2. low \in {LastSnapshots, Len(history)} /\ low <= Len(history)
  BY <1>1, LowestOfTwo, Zenon
<1>3. k \in 0..Len(history)
  <2> HIDE DEF low
  <2> QED BY <1>1, <1>2
<1>4. WorldNodes(history) =
                [i \in 1..(Len(history) - k) |->
                   MemoryNode(<<"world", i>>, "WORLD",
                              {<<"location", history[k + i].location>>, <<"history", "h">>},
                              {history[k + i].location} \cup history[k + i].entities,
                              history[k + i].confidence, 50)]
  BY DEF WorldNodes
<1> HIDE DEF k
<1>5. k = Len(history) - low BY DEF k
<1> QED BY <1>3, <1>4, <1>5

\* There are finitely many kinds of opportunities.
LEMMA KindsAreFew == IsFiniteSet(OpportunityKinds)
<1>1. OpportunityKinds =
        ((({"NPC_INTERACTION"} \cup {"RESOURCE_AVAILABLE"}) \cup {"TASK_PROGRESS"}) \cup {"SAFE_AREA"})
          \cup {"NEW_DISCOVERY"}
  BY DEF OpportunityKinds
<1>2. IsFiniteSet({"NPC_INTERACTION"}) BY FS_Singleton
<1>3. IsFiniteSet({"NPC_INTERACTION"} \cup {"RESOURCE_AVAILABLE"}) BY <1>2, FS_AddElement
<1>4. IsFiniteSet(({"NPC_INTERACTION"} \cup {"RESOURCE_AVAILABLE"}) \cup {"TASK_PROGRESS"})
  BY <1>3, FS_AddElement
<1>5. IsFiniteSet((({"NPC_INTERACTION"} \cup {"RESOURCE_AVAILABLE"}) \cup {"TASK_PROGRESS"}) \cup {"SAFE_AREA"})
  BY <1>4, FS_AddElement
<1> QED BY <1>1, <1>5, FS_AddElement

\* Finitely many options are recommended, with numbers for confidences.
LEMMA RecommendedAre ==
  ASSUME AdviceInv, NEW m \in moment, NEW d \in decision
  PROVE  /\ IsFiniteSet(d.recommended)
         /\ \A o \in d.recommended : o.confidence \in Int
<1>1. PICK p \in Preventions, q \in Qualities : d = BuildDecision(m.reference, p, q, m.goal)
  BY DEF AdviceInv, Decided
<1> DEFINE options == Options(m.reference, Notes(m.reference, p), m.goal)
           f == [a \in m.reference.adjustments |-> Option(<<"opt", a.type>>, ActionOf[a.type], m.goal, a.confidence)]
           g == [o \in m.opportunities |-> [type |-> o.type, priority |-> SuggestedPriority[o.type], confidence |-> o.confidence]]
<1>2. d.recommended = options.recommended BY <1>1 DEF BuildDecision
<1>3. d.recommended = {} \/ d.recommended = {f[a] : a \in m.reference.adjustments}
  BY <1>2 DEF Options
<1>4. Weighed(m) BY DEF AdviceInv
<1>5. m.reference.adjustments = {g[o] : o \in m.opportunities}
  <2>1. m.reference.adjustments = Adjustments(m.opportunities)
    BY <1>4 DEF Weighed, EnvironmentReference
  <2> QED BY <2>1 DEF Adjustments
<1>6. IsFiniteSet(m.opportunities)
  <2>1. IsFiniteSet(OpportunityKinds) BY KindsAreFew
  <2> DEFINE h == [t \in OpportunityKinds |-> [type |-> t, confidence |-> m.state.confidence]]
  <2>2. m.opportunities \in SUBSET {h[t] : t \in OpportunityKinds}
    <3> SUFFICES ASSUME NEW o \in m.opportunities PROVE o \in {h[t] : t \in OpportunityKinds}
      OBVIOUS
    <3>1. o \in [type : OpportunityKinds, confidence : {m.state.confidence}] BY <1>4 DEF Weighed
    <3>2. o.type \in OpportunityKinds /\ o = h[o.type] BY <3>1
    <3> QED BY <3>2
  <2> HIDE DEF h
  <2>3. IsFiniteSet({h[t] : t \in OpportunityKinds}) BY <2>1, ImageIsFinite
  <2> QED BY <2>2, <2>3, FS_Subset
<1>7. m.state.confidence \in Int
  <2>1. PICK x \in Observations : m.state = Collect(x) BY <1>4 DEF Weighed
  <2>2. m.state.confidence = x.confidence BY <2>1 DEF Collect, EnvironmentState
  <2>3. x.confidence \in Int BY AdviceConstants
  <2> QED BY <2>2, <2>3
<1>8. \A o \in d.recommended : o.confidence \in Int
  <2>1. \A o \in m.opportunities : o.confidence = m.state.confidence BY <1>4 DEF Weighed
  <2>2. ASSUME NEW a \in m.reference.adjustments PROVE a.confidence \in Int
    <3>1. PICK o \in m.opportunities : a = g[o] BY <1>5
    <3>2. a.confidence = o.confidence BY <3>1
    <3> QED BY <1>7, <2>1, <3>2
  <2>3. ASSUME NEW o \in d.recommended PROVE o.confidence \in Int
    <3>1. PICK a \in m.reference.adjustments : o = f[a] BY <1>3
    <3>2. o.confidence = a.confidence BY <3>1 DEF Option
    <3> QED BY <2>2, <3>2
  <2> QED BY <2>3
<1>9. IsFiniteSet(m.reference.adjustments)
  <2> HIDE DEF g
  <2> QED BY <1>5, <1>6, ImageIsFinite
<1>10. IsFiniteSet({f[a] : a \in m.reference.adjustments})
  <2> HIDE DEF f
  <2> QED BY <1>9, ImageIsFinite
<1> QED BY <1>3, <1>8, <1>10, FS_EmptySet

\* What a score is computed from is a number.
Numbered(n) == n.confidence \in Int /\ n.importance \in Int

\* Consolidation makes finitely many nodes; places are of snapshots and failures of
\* failures on record.
LEMMA NodesAre ==
  ASSUME AdviceInv, NEW m \in moment, NEW d \in decision
  PROVE  /\ IsFiniteSet(Nodes(d))
         /\ \A n \in Nodes(d) :
              /\ Numbered(n)
              /\ n.type = "WORLD" => \E i \in DOMAIN WorldNodes(history) : n = WorldNodes(history)[i]
              /\ n.type = "FAILURE" => \E f \in Failures : n = FailureNode(f)
         /\ \A i \in DOMAIN WorldNodes(history) : WorldNodes(history)[i] \in Nodes(d)
<1> DEFINE fe == [e \in Experiences |-> ExperienceNode(e)]
           ff == [f \in Failures |-> FailureNode(f)]
           fd == [o \in d.recommended |->
                    MemoryNode(<<"dec", o.id>>, "DECISION", {<<"action", o.action>>, <<"recommendation", TRUE>>},
                               {o.action, o.target}, o.confidence, 60)]
           ES == {fe[e] : e \in Experiences}
           FS == {ff[f] : f \in Failures}
           WS == {WorldNodes(history)[i] : i \in DOMAIN WorldNodes(history)}
           DS == {fd[o] : o \in d.recommended}
           PS == {PreferenceNodes(memory)[i] : i \in DOMAIN memory}
<1>1. Nodes(d) = ES \cup FS \cup WS \cup DS \cup PS
  BY DEF Nodes, Consolidate, DecisionNodes
<1>2. ASSUME NEW n \in ES PROVE Numbered(n) /\ n.type = "EXPERIENCE"
  <2>1. PICK e \in Experiences : n = fe[e] OBVIOUS
  <2>2. n = ExperienceNode(e) BY <2>1
  <2>3. n.confidence = e.confidence /\ n.importance \in Int /\ n.type = "EXPERIENCE"
    BY <2>2 DEF ExperienceNode, MemoryNode
  <2>4. e.confidence \in Int BY AdviceConstants
  <2> QED BY <2>3, <2>4 DEF Numbered
<1>3. ASSUME NEW n \in FS PROVE Numbered(n) /\ n.type = "FAILURE" /\ \E f \in Failures : n = FailureNode(f)
  <2>1. PICK f \in Failures : n = ff[f] OBVIOUS
  <2>2. n = FailureNode(f) BY <2>1
  <2>3. n.confidence = f.confidence /\ n.importance \in Int /\ n.type = "FAILURE"
    BY <2>2 DEF FailureNode, MemoryNode
  <2>4. f.confidence \in Int BY AdviceConstants
  <2> QED BY <2>2, <2>3, <2>4 DEF Numbered
<1>4. PICK k \in 0..Len(history) :
           WorldNodes(history) =
                [i \in 1..(Len(history) - k) |->
                   MemoryNode(<<"world", i>>, "WORLD",
                              {<<"location", history[k + i].location>>, <<"history", "h">>},
                              {history[k + i].location} \cup history[k + i].entities,
                              history[k + i].confidence, 50)]
  BY WorldNodesAre
<1>5. ASSUME NEW i \in DOMAIN WorldNodes(history)
      PROVE  Numbered(WorldNodes(history)[i]) /\ WorldNodes(history)[i].type = "WORLD"
  <2>1. Len(history) \in Nat /\ DOMAIN history = 1..Len(history) BY SnapshotsAre
  <2>2. i \in 1..(Len(history) - k) BY <1>4
  <2>3. k + i \in DOMAIN history BY <2>1, <2>2
  <2>4. PICK o \in Observations : history[k + i] = Collect(o) BY <2>3, SnapshotsAre
  <2>5. history[k + i].confidence = o.confidence BY <2>4 DEF Collect, EnvironmentState
  <2>6. o.confidence \in Int BY AdviceConstants
  <2>7. WorldNodes(history)[i].confidence = history[k + i].confidence
        /\ WorldNodes(history)[i].importance = 50 /\ WorldNodes(history)[i].type = "WORLD"
    BY <1>4, <2>2 DEF MemoryNode
  <2> QED BY <2>5, <2>6, <2>7 DEF Numbered
<1>6. ASSUME NEW n \in DS PROVE Numbered(n) /\ n.type = "DECISION"
  <2>1. PICK o \in d.recommended : n = fd[o] OBVIOUS
  <2>2. n.confidence = o.confidence /\ n.importance = 60 /\ n.type = "DECISION"
    BY <2>1 DEF MemoryNode
  <2> QED BY <2>2, RecommendedAre DEF Numbered
<1>7. ASSUME NEW n \in PS PROVE Numbered(n) /\ n.type = "PREFERENCE"
  <2>1. PICK i \in DOMAIN memory : n = PreferenceNodes(memory)[i] OBVIOUS
  <2> QED BY <2>1 DEF PreferenceNodes, MemoryNode, Numbered
<1>8. IsFiniteSet(Nodes(d))
  <2>1. IsFiniteSet(ES)
    <3> HIDE DEF fe
    <3> QED BY ImageIsFinite, AdviceConstants
  <2>2. IsFiniteSet(FS)
    <3> HIDE DEF ff
    <3> QED BY ImageIsFinite, AdviceConstants
  <2>3. IsFiniteSet(WS)
    <3>1. Len(history) \in Nat BY SnapshotsAre
    <3>2. DOMAIN WorldNodes(history) = 1..(Len(history) - k) BY <1>4
    <3>3. IsFiniteSet(DOMAIN WorldNodes(history)) BY <3>1, <3>2, FS_Interval
    <3> QED BY <3>3, ImageIsFinite
  <2>4. IsFiniteSet(DS)
    <3> HIDE DEF fd
    <3> QED BY ImageIsFinite, RecommendedAre
  <2>5. IsFiniteSet(PS)
    <3>1. IsFiniteSet(DOMAIN memory) BY FS_Interval DEF AdviceInv
    <3> QED BY <3>1, ImageIsFinite
  <2> HIDE DEF ES, FS, WS, DS, PS
  <2>6. IsFiniteSet(ES \cup FS) BY <2>1, <2>2, FS_Union
  <2>7. IsFiniteSet(ES \cup FS \cup WS) BY <2>6, <2>3, FS_Union
  <2>8. IsFiniteSet(ES \cup FS \cup WS \cup DS) BY <2>7, <2>4, FS_Union
  <2> QED BY <1>1, <2>8, <2>5, FS_Union
<1>9. ASSUME NEW n \in WS PROVE Numbered(n) /\ n.type = "WORLD" /\ \E i \in DOMAIN WorldNodes(history) : n = WorldNodes(history)[i]
  BY <1>5
<1>10. \A i \in DOMAIN WorldNodes(history) : WorldNodes(history)[i] \in WS OBVIOUS
<1> HIDE DEF ES, FS, WS, DS, PS
<1> QED BY <1>1, <1>2, <1>3, <1>6, <1>7, <1>8, <1>9, <1>10

-----------------------------------------------------------------------------
\* A query has at most three pairs and asks of this location, if of any.
AsksOf(query, location) ==
  /\ IsFiniteSet(query) /\ Cardinality(query) \in 0..3
  /\ \A p \in query : p[1] # "history" /\ (p[1] = "location" => p[2] = location)
  /\ location \notin {NoGoal, NoPlace, ""} => <<"location", location>> \in query

\* MemoryRetriever._query_context asks of the location of the state.
LEMMA QueryIs ==
  ASSUME NEW goal, NEW location, NEW action
  PROVE  AsksOf(QueryContext(goal, location, action), location)
<1> DEFINE query == QueryContext(goal, location, action)
           a == <<"goal", goal>>
           b == <<"location", location>>
           c == <<"action", action>>
<1>1. query \in SUBSET (({a} \cup {b}) \cup {c}) BY DEF QueryContext
<1>2. IsFiniteSet({a}) /\ Cardinality({a}) = 1 BY FS_Singleton
<1>3. IsFiniteSet({a} \cup {b}) /\ Cardinality({a} \cup {b}) \in 1..2 BY <1>2, FS_AddElement
<1>4. IsFiniteSet(({a} \cup {b}) \cup {c}) /\ Cardinality(({a} \cup {b}) \cup {c}) \in 1..3
  BY <1>3, FS_AddElement
<1>5. IsFiniteSet(query) /\ Cardinality(query) <= Cardinality(({a} \cup {b}) \cup {c})
  BY <1>1, <1>4, FS_Subset
<1>6. Cardinality(query) \in Nat BY <1>5, FS_CardinalityType
<1>7. ASSUME NEW p \in query PROVE p[1] # "history" /\ (p[1] = "location" => p[2] = location)
  <2>1. p = a \/ p = b \/ p = c BY DEF QueryContext
  <2> QED BY <2>1
<1>8. location \notin {NoGoal, NoPlace, ""} => b \in query BY DEF QueryContext
<1>9. Cardinality(query) \in 0..3 BY <1>4, <1>5, <1>6
<1> HIDE DEF query
<1>10. AsksOf(query, location) BY <1>5, <1>7, <1>8, <1>9 DEF AsksOf
<1> QED BY <1>10 DEF query

\* MemoryRetriever._context_similarity is zero just where nothing is shared.
LEMMA SimilarityIs ==
  ASSUME NEW context, NEW query, IsFiniteSet(query), Cardinality(query) \in 0..3
  PROVE  /\ Similarity(context, query) \in Int
         /\ context \cap query = {} => Similarity(context, query) = 0
         /\ context \cap query # {} => Similarity(context, query) > 0
<1> DEFINE n == Cardinality(context \cap query)
           q == Cardinality(query)
<1>1. n \in Nat /\ (context \cap query = {} <=> n = 0)
  <2>1. IsFiniteSet(context \cap query) BY FS_Intersection
  <2> QED BY <2>1, FS_CardinalityType, FS_EmptySet
<1>2. CASE query = {} BY <1>2 DEF Similarity
<1>3. CASE query # {}
  <2>1. q # 0 BY <1>3, FS_EmptySet
  <2>2. Similarity(context, query) = (n * 100) \div q BY <1>3 DEF Similarity
  <2> HIDE DEF n, q
  <2>3. q = 1 \/ q = 2 \/ q = 3 BY <2>1 DEF q
  <2>4. (n * 100) \div q \in Int /\ (n = 0 => (n * 100) \div q = 0) /\ (n > 0 => (n * 100) \div q > 0)
    <3>1. CASE q = 1 BY <3>1, <1>1
    <3>2. CASE q = 2 BY <3>2, <1>1
    <3>3. CASE q = 3 BY <3>3, <1>1
    <3> QED BY <2>3, <3>1, <3>2, <3>3
  <2> QED BY <1>1, <2>2, <2>4
<1> QED BY <1>2, <1>3

\* MemoryRetriever._score of something consolidated on the spot.
LEMMA RelevanceIs ==
  ASSUME NEW node, Numbered(node), NEW query, IsFiniteSet(query), Cardinality(query) \in 0..3
  PROVE  /\ Relevance(node, query) =
              30 * Similarity(node.context, query) + 25 * node.importance + 25 * node.confidence + 2000
         /\ Relevance(node, query) \in Int
<1>1. Recency(Age) = 100 BY DEF Recency, Age
<1>2. Similarity(node.context, query) \in Int BY SimilarityIs
<1> QED BY <1>1, <1>2 DEF Relevance, Numbered

\* A node of the place that is asked of comes before one of another place that was
\* not seen more clearly.
LEMMA HereBeforeThere ==
  ASSUME NEW n, NEW w, NEW query, Numbered(n), Numbered(w),
         IsFiniteSet(query), Cardinality(query) \in 0..3,
         n.context \cap query = {}, w.context \cap query # {},
         n.importance = w.importance, w.confidence >= n.confidence
  PROVE  Relevance(w, query) > Relevance(n, query)
<1>1. Similarity(n.context, query) = 0 /\ Similarity(w.context, query) > 0
      /\ Similarity(w.context, query) \in Int
  BY SimilarityIs
<1>2. Relevance(w, query) =
         30 * Similarity(w.context, query) + 25 * w.importance + 25 * w.confidence + 2000
  BY RelevanceIs
<1>3. Relevance(n, query) =
         30 * Similarity(n.context, query) + 25 * n.importance + 25 * n.confidence + 2000
  BY RelevanceIs
<1> QED BY <1>1, <1>2, <1>3 DEF Numbered

-----------------------------------------------------------------------------
\* A node is of a snapshot.
Remembers(n, s) ==
  /\ n.context = {<<"location", s.location>>, <<"history", "h">>}
  /\ n.confidence = s.confidence /\ n.importance = 50 /\ n.type = "WORLD"

\* Such a node has one place, the snapshot's.
LEMMA PlaceIs ==
  ASSUME NEW n, NEW s, Remembers(n, s)
  PROVE  PlaceOf(n) = s.location
<1> DEFINE located == {q \in n.context : q[1] = "location"}
           values == {p[2] : p \in located}
<1>1. <<"location", s.location>> \in located BY DEF Remembers
<1>2. \A q \in located : q = <<"location", s.location>>
  <2> SUFFICES ASSUME NEW q \in located PROVE q = <<"location", s.location>> OBVIOUS
  <2>1. q = <<"location", s.location>> \/ q = <<"history", "h">> BY DEF Remembers
  <2> QED BY <2>1
<1>3. values = {s.location}
  <2>1. located = {<<"location", s.location>>} BY <1>1, <1>2
  <2> HIDE DEF located
  <2> QED BY <2>1
<1>4. PlaceOf(n) = CHOOSE x \in values : TRUE BY DEF PlaceOf
<1> HIDE DEF values
<1> QED BY <1>3, <1>4

\* The nodes of places are those of the last snapshots.
LEMMA WorldNodesRecent ==
  ASSUME AdviceInv
  PROVE  /\ \A i \in DOMAIN WorldNodes(history) : \E s \in Recent : Remembers(WorldNodes(history)[i], s)
         /\ \A s \in Recent : \E i \in DOMAIN WorldNodes(history) : Remembers(WorldNodes(history)[i], s)
<1>1. Len(history) \in Nat BY SnapshotsAre
<1> DEFINE k == Len(history) - Lowest({LastSnapshots, Len(history)})
<1>2. k \in 0..Len(history) BY WorldNodesAre
<1>3. WorldNodes(history) =
                [i \in 1..(Len(history) - k) |->
                   MemoryNode(<<"world", i>>, "WORLD",
                              {<<"location", history[k + i].location>>, <<"history", "h">>},
                              {history[k + i].location} \cup history[k + i].entities,
                              history[k + i].confidence, 50)]
  BY WorldNodesAre
<1>4. Recent = {history[i] : i \in (k + 1)..Len(history)} BY DEF Recent
<1> HIDE DEF k
<1>5. ASSUME NEW i \in 1..(Len(history) - k)
      PROVE  Remembers(WorldNodes(history)[i], history[k + i])
  BY <1>3 DEF MemoryNode, Remembers
<1>6. ASSUME NEW i \in DOMAIN WorldNodes(history)
      PROVE  \E s \in Recent : Remembers(WorldNodes(history)[i], s)
  <2>1. i \in 1..(Len(history) - k) BY <1>3
  <2>2. k + i \in (k + 1)..Len(history) BY <1>1, <1>2, <2>1
  <2>3. history[k + i] \in Recent BY <1>4, <2>2
  <2> QED BY <1>5, <2>1, <2>3
<1>7. ASSUME NEW s \in Recent
      PROVE  \E i \in DOMAIN WorldNodes(history) : Remembers(WorldNodes(history)[i], s)
  <2>1. PICK j \in (k + 1)..Len(history) : s = history[j] BY <1>4
  <2>2. j - k \in 1..(Len(history) - k) /\ k + (j - k) = j BY <1>1, <1>2
  <2>3. Remembers(WorldNodes(history)[j - k], s) BY <1>5, <2>1, <2>2
  <2>4. j - k \in DOMAIN WorldNodes(history) BY <1>3, <2>2
  <2> QED BY <2>3, <2>4
<1> QED BY <1>6, <1>7

\* MemoryOfNow of one memory, of these snapshots and these moments.
OfNow(r, recent, moments) ==
  /\ {PlaceOf(n) : n \in r.reference.places} \subseteq {s.location : s \in recent}
  /\ Cardinality(r.reference.relevant) = Lowest({Limit, r.count})
  /\ \A n \in r.reference.places, s \in recent, m \in moments :
       s.location = m.state.location /\ s.location # NoPlace /\ s.confidence >= n.confidence =>
         \E x \in r.reference.places : PlaceOf(x) = m.state.location
  /\ r.semantic.hints \subseteq {<<"fail", f.id>> : f \in Failures}

\* What consolidation, retrieval and association make of a decision is of now.
LEMMA RecallIsOfNow ==
  ASSUME AdviceInv, NEW m \in moment, NEW d \in decision, NEW action,
         NEW relevant \in Relevant(Nodes(d), QueryContext(m.goal, m.state.location, action))
  PROVE  OfNow(Recall(Nodes(d), relevant, QueryContext(m.goal, m.state.location, action)), Recent, {m})
<1> DEFINE query == QueryContext(m.goal, m.state.location, action)
           nodes == Nodes(d)
           r == Recall(nodes, relevant, query)
<1>0. AsksOf(query, m.state.location) BY QueryIs
<1>01. relevant \in Relevant(nodes, query) OBVIOUS
<1>1. /\ r.reference.relevant = relevant /\ r.count = Cardinality(nodes)
      /\ r.reference.places = {n \in relevant : n.type = "WORLD"}
  BY DEF Recall, MemoryReference
<1>2. /\ IsFiniteSet(query) /\ Cardinality(query) \in 0..3
      /\ \A p \in query : p[1] # "history" /\ (p[1] = "location" => p[2] = m.state.location)
      /\ m.state.location \notin {NoGoal, NoPlace, ""} => <<"location", m.state.location>> \in query
  BY <1>0 DEF AsksOf
<1> HIDE DEF query
<1>3. /\ IsFiniteSet(nodes)
      /\ \A n \in nodes :
           /\ Numbered(n)
           /\ n.type = "WORLD" => \E i \in DOMAIN WorldNodes(history) : n = WorldNodes(history)[i]
           /\ n.type = "FAILURE" => \E f \in Failures : n = FailureNode(f)
      /\ \A i \in DOMAIN WorldNodes(history) : WorldNodes(history)[i] \in nodes
  BY NodesAre
<1> HIDE DEF nodes
<1>4. ASSUME NEW n \in nodes PROVE Relevance(n, query) \in Int
  <2>1. Numbered(n) BY <1>3
  <2>2. IsFiniteSet(query) /\ Cardinality(query) \in 0..3 BY <1>2
  <2> QED BY <2>1, <2>2, RelevanceIs
<1>5. /\ relevant \subseteq nodes
      /\ Cardinality(relevant) = Lowest({Limit, Cardinality(nodes)})
      /\ \A n \in relevant, w \in nodes :
           Relevance(w, query) > Relevance(n, query) => w \in relevant
  BY <1>01, <1>3, <1>4, BestAreKept
<1>6. ASSUME NEW n \in r.reference.places PROVE \E s \in Recent : Remembers(n, s)
  <2>1. n \in nodes /\ n.type = "WORLD" BY <1>1, <1>5
  <2>2. PICK i \in DOMAIN WorldNodes(history) : n = WorldNodes(history)[i] BY <1>3, <2>1
  <2> QED BY <2>2, WorldNodesRecent
<1>7. {PlaceOf(n) : n \in r.reference.places} \subseteq {s.location : s \in Recent}
  BY <1>6, PlaceIs
<1>8. ASSUME NEW n \in r.reference.places, NEW s \in Recent,
             s.location = m.state.location, s.location # NoPlace, s.confidence >= n.confidence
      PROVE  \E x \in r.reference.places : PlaceOf(x) = m.state.location
  <2>1. PICK t \in Recent : Remembers(n, t) BY <1>6
  <2>2. CASE t.location = m.state.location BY <2>1, <2>2, PlaceIs
  <2>3. CASE t.location # m.state.location
    <3>1. PICK i \in DOMAIN WorldNodes(history) : Remembers(WorldNodes(history)[i], s)
      BY WorldNodesRecent
    <3> DEFINE w == WorldNodes(history)[i]
    <3>2. w \in nodes BY <1>3
    <3>3. <<"location", m.state.location>> \in query
      <4>1. PICK o \in Observations : m.state = Collect(o) BY DEF AdviceInv, Weighed
      <4>2. m.state.location = o.map BY <4>1 DEF Collect, EnvironmentState
      <4>3. o.map \notin {NoGoal, ""} BY AdviceConstants
      <4>4. m.state.location \notin {NoGoal, NoPlace, ""} BY <1>8, <4>2, <4>3
      <4> QED BY <1>2, <4>4
    <3>4. w.context \cap query # {} BY <1>8, <3>1, <3>3 DEF Remembers
    <3>5. n.context \cap query = {}
      <4>1. <<"location", t.location>> \notin query
        <5>1. <<"location", t.location>>[1] = "location" /\ <<"location", t.location>>[2] = t.location
          OBVIOUS
        <5> QED BY <1>2, <2>3, <5>1
      <4>2. <<"history", "h">> \notin query
        <5>1. <<"history", "h">>[1] = "history" OBVIOUS
        <5> QED BY <1>2, <5>1
      <4> QED BY <2>1, <4>1, <4>2 DEF Remembers
    <3>6. n \in nodes /\ n \in relevant BY <1>1, <1>5
    <3>7. n.importance = w.importance /\ w.confidence >= n.confidence /\ w.type = "WORLD"
      BY <1>8, <2>1, <3>1 DEF Remembers
    <3> HIDE DEF w
    <3>8. Relevance(w, query) > Relevance(n, query)
      BY <1>2, <1>3, <3>2, <3>4, <3>5, <3>6, <3>7, HereBeforeThere
    <3>9. w \in r.reference.places BY <1>1, <1>5, <3>2, <3>6, <3>7, <3>8
    <3>10. PlaceOf(w) = m.state.location BY <1>8, <3>1, PlaceIs DEF w
    <3> QED BY <3>9, <3>10
  <2> QED BY <2>2, <2>3
<1>9. r.semantic.hints \subseteq {<<"fail", f.id>> : f \in Failures}
  <2> SUFFICES ASSUME NEW h \in r.semantic.hints PROVE h \in {<<"fail", f.id>> : f \in Failures}
    OBVIOUS
  <2>1. PICK rel \in Associate(nodes) : rel.type = "DECISION_IMPROVEMENT" /\ h = rel.target
    BY DEF Recall, SemanticReference
  <2>2. \E p \in {n \in nodes : n.type = "DECISION"} \X {n \in nodes : n.type = "FAILURE"} :
          rel.target = p[2].id
    BY <2>1 DEF Associate, SemanticRelation
  <2>3. PICK n \in nodes : n.type = "FAILURE" /\ h = n.id BY <2>1, <2>2
  <2>4. PICK f \in Failures : n = FailureNode(f) BY <1>3, <2>3
  <2>5. n.id = <<"fail", f.id>> BY <2>4 DEF FailureNode, MemoryNode
  <2> QED BY <2>3, <2>5
<1>10. Cardinality(r.reference.relevant) = Lowest({Limit, r.count}) BY <1>1, <1>5
<1> HIDE DEF r
<1>11. OfNow(r, Recent, {m}) BY <1>7, <1>8, <1>9, <1>10 DEF OfNow
<1> QED BY <1>11 DEF r, nodes, query

\* MemoryOfNow, of the snapshots and the moment there are ...
LEMMA MemoryIs == MemoryOfNow <=> \A r \in remembered : OfNow(r, Recent, moment)
BY DEF MemoryOfNow, OfNow

\* ... and of those there will be.
LEMMA MemoryWillBe == MemoryOfNow' <=> \A r \in remembered' : OfNow(r, Recent', moment')
BY DEF MemoryOfNow, OfNow

\* While something is remembered neither the history nor the moment changes.
LEMMA MemoryStaysOfNow ==
  ASSUME AdviceInv, MemoryOfNow, [AdviceNext]_adviceVars
  PROVE  MemoryOfNow'
<1>1. CASE Remember
  <2>0. PICK m \in moment, d \in decision :
          \E action \in IF d.recommended = {} THEN {""} ELSE {o.action : o \in d.recommended} :
          \E query \in {QueryContext(m.goal, m.state.location, action)}, nodes \in {Nodes(d)} :
          \E relevant \in Relevant(AddMany({}, nodes), query) :
            remembered' = {Recall(nodes, relevant, query)}
    BY <1>1 DEF Remember
  <2>1. PICK action \in IF d.recommended = {} THEN {""} ELSE {o.action : o \in d.recommended} :
          \E query \in {QueryContext(m.goal, m.state.location, action)}, nodes \in {Nodes(d)} :
          \E relevant \in Relevant(AddMany({}, nodes), query) :
            remembered' = {Recall(nodes, relevant, query)}
    BY <2>0
  <2> DEFINE query == QueryContext(m.goal, m.state.location, action)
             nodes == Nodes(d)
  <2>2. AddMany({}, nodes) = nodes BY DEF AddMany
  <2>3. PICK relevant \in Relevant(nodes, query) : remembered' = {Recall(nodes, relevant, query)}
    BY <2>1, <2>2
  <2> DEFINE r == Recall(nodes, relevant, query)
  <2>4. OfNow(r, Recent, {m})
    BY <2>3, RecallIsOfNow, Zenon
  <2>5. moment' = moment /\ history' = history BY <1>1 DEF Remember
  <2>6. moment = {m} BY DEF AdviceInv, AtMostOne
  <2>7. remembered' = {r} BY <2>3
  <2> HIDE DEF r
  <2>8. Recent' = Recent BY <2>5 DEF Recent
  <2> QED BY <2>4, <2>5, <2>6, <2>7, <2>8, MemoryWillBe
<1>2. CASE ~Remember
  <2>1. remembered' = {} \/ UNCHANGED <<history, moment, remembered>>
    BY <1>2 DEF AdviceNext, adviceVars, Look, ReasonAbout, Decide, Answer, NoAnswer, NextRound, AdviceInv, None
  <2>2. CASE UNCHANGED <<history, moment, remembered>>
    <3>1. Recent' = Recent BY <2>2 DEF Recent
    <3> QED BY <2>2, <3>1, MemoryIs, MemoryWillBe
  <2> QED BY <2>1, <2>2, MemoryWillBe
<1> QED BY <1>1, <1>2

\* Memories of places are of the last snapshots, none is left out while there is
\* room, the place asked of comes before any not seen more clearly, and hints are
\* failures on record: for all stores, histories, limits and answers.
THEOREM MemoryIsOfNow == AdviceSpec => []MemoryOfNow
<1>1. AdviceInit => MemoryOfNow BY DEF AdviceInit, None, MemoryOfNow
<1>2. AdviceInv /\ MemoryOfNow /\ [AdviceNext]_adviceVars => MemoryOfNow' BY MemoryStaysOfNow
<1> QED BY <1>1, <1>2, AdviceInvariance, PTL DEF AdviceSpec
=============================================================================
