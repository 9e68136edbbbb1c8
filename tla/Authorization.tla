----------------------------- MODULE Authorization -----------------------------
(***************************************************************************)
(* Permission to act: the requests and tokens of ConfirmationManager       *)
(* (confirmation/) and the sandbox that asks for a token before it         *)
(* executes (executor_sandbox/).  Nothing here suspends, so every call is  *)
(* one step; time passes between any two of them.                          *)
(***************************************************************************)
EXTENDS Naturals, Sequences, FiniteSets

CONSTANTS
  Action, Target,
  Allowed,     \* SandboxPolicy.ALLOWED_ACTIONS
  TTL,         \* ConfirmationManager.ttl_seconds, in ticks
  MaxTime,     \* bound: ticks
  MaxRequests, \* bound: requests created
  MaxDone      \* bound: others execute only while fewer executions are remembered

ASSUME AuthAssumption ==
  /\ Allowed \subseteq Action
  /\ TTL \in Nat /\ MaxTime \in Nat /\ MaxRequests \in Nat /\ MaxDone \in Nat

VARIABLES
  now,
  request,  \* _requests, in the order of their creation
  token,    \* _tokens, in the order of their issue
  done      \* history: the executions the sandbox completed

authVars == <<now, request, token, done>>

Status == {"PENDING", "APPROVED", "REJECTED", "EXPIRED", "BLOCKED"}
Request == [status : Status, action : Action, target : Target]
Token == [request : Nat, action : Action, target : Target, expires : Nat]
Execution == [token : Nat, action : Action, target : Target, at : Nat]

AuthInit == now = 0 /\ request = <<>> /\ token = <<>> /\ done = {}

-----------------------------------------------------------------------------
\* HumanConfirmationGate.create_request, then create: of high risk, or pending.
CreateRequest(a, t, status) ==
  /\ Len(request) < MaxRequests
  /\ request' = Append(request, [status |-> status, action |-> a, target |-> t])

\* approve: whose request it is, for what, and until when is in the token.
\* (A slip: the status is not asked for.)
ApproveAny(r) ==
  /\ request' = [request EXCEPT ![r].status = "APPROVED"]
  /\ token' = Append(token, [request |-> r, action |-> request[r].action,
                             target |-> request[r].target, expires |-> now + TTL])

Approve(r) ==
  /\ request[r].status = "PENDING"
  /\ request' = [request EXCEPT ![r].status = "APPROVED"]
  /\ token' = Append(token, [request |-> r, action |-> request[r].action,
                             target |-> request[r].target, expires |-> now + TTL])

Reject(r) ==
  /\ request[r].status = "PENDING"
  /\ request' = [request EXCEPT ![r].status = "REJECTED"]

\* expire: whatever the status; the token of an approved request stays valid.
Expire(r) == request' = [request EXCEPT ![r].status = "EXPIRED"]

\* (A slip: the comparison the other way round.)
ExpiredEarly(k) == token[k].expires > now
Expired(k) == token[k].expires < now

\* SandboxValidator.validate: neither the request's status nor the target is
\* looked at.  A scope, if the caller gives one, must be the token's.
Verified(k, a, scope) ==
  /\ ~Expired(k)
  /\ scope = <<>> \/ scope = <<token[k].action, token[k].target>>
  /\ a = token[k].action
  /\ a \in Allowed

Execute(k, a, t, scope) ==
  /\ Verified(k, a, scope)
  /\ done' = done \cup {[token |-> k, action |-> a, target |-> t, at |-> now]}

-----------------------------------------------------------------------------
\* What the console's user and other callers do, and time.
UserApproves == \E r \in DOMAIN request : Approve(r) /\ UNCHANGED <<now, done>>
UserRejects == \E r \in DOMAIN request : Reject(r) /\ UNCHANGED <<now, token, done>>
SomeoneExpires == \E r \in DOMAIN request : Expire(r) /\ UNCHANGED <<now, token, done>>

SomeoneExecutes ==
  /\ Cardinality(done) < MaxDone
  /\ \E k \in DOMAIN token, a \in Action, t \in Target :
       \E scope \in {<<>>} \cup (Action \X Target) :
         Execute(k, a, t, scope) /\ UNCHANGED <<now, request, token>>

Tick ==
  /\ now < MaxTime
  /\ now' = now + 1
  /\ UNCHANGED <<request, token, done>>

-----------------------------------------------------------------------------
AuthTypeOK ==
  /\ now \in 0..MaxTime
  /\ request \in Seq(Request) /\ token \in Seq(Token)
  /\ \A k \in DOMAIN token : token[k].request \in DOMAIN request /\ token[k].expires <= now + TTL
  /\ done \subseteq Execution

\* Nothing was ever executed but an allowed action that somebody had approved,
\* with a token not yet expired at that moment.  It need not be the target
\* that was approved: the sandbox does not compare it.
ExecutedWithPermission ==
  \A d \in done :
    /\ d.token \in DOMAIN token /\ d.action \in Allowed
    /\ LET k == token[d.token]
       IN  /\ d.at <= k.expires
           /\ request[k.request].action = d.action
           /\ request[k.request].status \in {"APPROVED", "EXPIRED"}

\* A request is decided once: it leaves PENDING for good, a decision can only
\* expire, and no request, however often it is approved, rejected or expired,
\* ever has two tokens; a token is only issued for a request that is pending at that
\* moment, so never after it was rejected, blocked or has expired.
DecidedOnce ==
  /\ [](\A k, j \in DOMAIN token : token[k].request = token[j].request => k = j)
  /\ [][\A r \in DOMAIN request :
          request'[r].status # request[r].status =>
            \/ request[r].status = "PENDING"
            \/ request'[r].status = "EXPIRED"]_authVars
  /\ [][\A k \in DOMAIN token' \ DOMAIN token :
          token'[k].request \in DOMAIN request /\ request[token'[k].request].status = "PENDING"]_authVars
=============================================================================
