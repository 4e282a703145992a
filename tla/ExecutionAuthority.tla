-------------------------- MODULE ExecutionAuthority --------------------------
\* commands/agent_execution_security.rs: how the authority of a session is
\* narrowed to one resolved invocation, how an exact approval is bound to it,
\* and the one-shot claim an executor makes just before its side effect. An
\* invocation carries its digest beside what the digest was made of: the fields
\* are public, and nothing makes the digest again.
EXTENDS Naturals, FiniteSets

CONSTANTS Session, ResolutionId, GrantId, ApprovalId, Executor,
          Scope,     \* agent, session, tool, contract version and target
          Policy,    \* policy versions
          Arguments, \* normalized arguments
          Presented, \* the invocations callers hold, changed since they were resolved or not
          Allows,  \* Allows[s], PolicyOf[s]: what the binding, tools and targets of s cover
          PolicyOf,
          From,    \* From[s], Until[s]: the window of s
          Until,
          Ttl,     \* ttl_seconds a caller may ask for
          MaxTime, \* bound: the clock
          MaxGrant, MaxApproval \* bounds: grants and approvals given

(* resolve_invocation makes a digest of the content; equal digests are equal contents. *)
Content == [scope : Scope, policy : Policy, args : Arguments]
Invocation == [resolution : ResolutionId, scope : Scope, policy : Policy, args : Arguments,
               digest : Content]

ASSUME ExecutionAuthorityAssumption ==
  /\ Presented \subseteq Invocation
  /\ Allows \in [Session -> SUBSET Scope] /\ PolicyOf \in [Session -> Policy]
  /\ From \in [Session -> Nat] /\ Until \in [Session -> Nat]
  /\ Ttl \subseteq Nat /\ MaxTime \in Nat /\ MaxGrant \in Nat /\ MaxApproval \in Nat

RiskLevel == {"L0Query", "L1Diagnostic", "L2ProposedAction", "L3ApprovedAction"}

(* A grant holds all of its invocation but the arguments: no check reads those. *)
Grant == [id : GrantId, session : Session, inv : Invocation, risk : RiskLevel,
          issued : Nat, expires : Nat]
Approval == [id : ApprovalId, grant : GrantId, resolution : ResolutionId, digest : Content,
             from : Nat, until : Nat]

VARIABLES
  now,       \* the clock the callers read
  grants,    \* InvocationGrants handed out
  approvals, \* ExactInvocationApprovals given
  consumed,  \* ExecutionReplayGuard.consumed_approvals
  claim,     \* each executor between its validation and its insertion
  ran,       \* ghost: what was executed, and when it was validated
  uses       \* ghost: how often each approval let an action run
eaVars == <<now, grants, approvals, consumed, claim, ran, uses>>

NoClaim == [pc |-> "idle"]
Ran == [grant : Grant, inv : Invocation, at : Nat]

EaInit ==
  /\ now = 0 /\ grants = {} /\ approvals = {} /\ consumed = {}
  /\ claim = [x \in Executor |-> NoClaim]
  /\ ran = {} /\ uses = [a \in ApprovalId |-> 0]

Tick ==
  /\ now < MaxTime /\ now' = now + 1
  /\ UNCHANGED <<grants, approvals, consumed, claim, ran, uses>>
-----------------------------------------------------------------------------
SessionAllows(s, inv) ==
  /\ From[s] <= now /\ now < Until[s]
  /\ inv.policy = PolicyOf[s] /\ inv.scope \in Allows[s]

GrantExpiry(s, ttl) == IF now + ttl <= Until[s] THEN now + ttl ELSE Until[s]

\* issue_invocation_grant: a proposal gets none.
IssueGrant(id, s, inv, risk, ttl) ==
  /\ Cardinality(grants) < MaxGrant
  /\ SessionAllows(s, inv)
  /\ risk # "L2ProposedAction" /\ ttl # 0 /\ GrantExpiry(s, ttl) > now
  /\ grants' = grants \cup {[id |-> id, session |-> s, inv |-> inv, risk |-> risk,
                             issued |-> now, expires |-> GrantExpiry(s, ttl)]}
  /\ UNCHANGED <<now, approvals, consumed, claim, ran, uses>>

\* Somebody approves an invocation of some grant, until some time.
Approve(id, gid, inv, until) ==
  /\ Cardinality(approvals) < MaxApproval
  /\ approvals' = approvals \cup {[id |-> id, grant |-> gid, resolution |-> inv.resolution,
                                   digest |-> inv.digest, from |-> now, until |-> until]}
  /\ UNCHANGED <<now, grants, consumed, claim, ran, uses>>

\* validate_exact_approval compares the digest the invocation carries, and its scope;
\* neither the policy nor the arguments.
GrantCovers(g, inv) ==
  /\ g.issued <= now /\ now < g.expires
  /\ g.inv.resolution = inv.resolution /\ g.inv.digest = inv.digest /\ g.inv.scope = inv.scope

ApprovalCovers(a, g, inv) ==
  /\ a.from <= now /\ now < a.until
  /\ a.grant = g.id /\ a.resolution = inv.resolution /\ a.digest = inv.digest

\* Levels 0 and 1 run on the grant alone.
RunReadOnly(g, inv) ==
  /\ GrantCovers(g, inv) /\ g.risk # "L3ApprovedAction"
  /\ ran' = ran \cup {[grant |-> g, inv |-> inv, at |-> now]}
  /\ UNCHANGED <<now, grants, approvals, consumed, claim, uses>>

\* claim_l3_execution: validated first, the lock is taken after.
BeginClaim(x, g, inv, a) ==
  /\ claim[x].pc = "idle"
  /\ GrantCovers(g, inv) /\ g.risk = "L3ApprovedAction" /\ ApprovalCovers(a, g, inv)
  /\ claim' = [claim EXCEPT ![x] = [pc |-> "insert", by |-> a.id,
                                     run |-> [grant |-> g, inv |-> inv, at |-> now]]]
  /\ UNCHANGED <<now, grants, approvals, consumed, ran, uses>>

\* Mutant of Unused: the answer of insert is not looked at.
UnusedUnchecked(a) == TRUE

Unused(a) == a \notin consumed

EndClaim(x) ==
  /\ claim[x].pc = "insert"
  /\ IF Unused(claim[x].by)
       THEN /\ consumed' = consumed \cup {claim[x].by}
            /\ ran' = ran \cup {claim[x].run}
            /\ uses' = [uses EXCEPT ![claim[x].by] = @ + 1]
       ELSE UNCHANGED <<consumed, ran, uses>>
  /\ claim' = [claim EXCEPT ![x] = NoClaim]
  /\ UNCHANGED <<now, grants, approvals>>

EaNext ==
  \/ Tick
  \/ \E id \in GrantId, s \in Session, inv \in Presented, risk \in RiskLevel, ttl \in Ttl :
        IssueGrant(id, s, inv, risk, ttl)
  \/ \E id \in ApprovalId, gid \in GrantId, inv \in Presented, until \in 0..MaxTime :
        Approve(id, gid, inv, until)
  \/ \E g \in grants, inv \in Presented :
        \/ RunReadOnly(g, inv)
        \/ \E x \in Executor, a \in approvals : BeginClaim(x, g, inv, a)
  \/ \E x \in Executor : EndClaim(x)

EaSpec == EaInit /\ [][EaNext]_eaVars
-----------------------------------------------------------------------------
\* Nothing runs outside the session it was granted in, though only the grant is
\* looked at by then: what runs is within the scope the session covers, and was
\* validated inside the session's window.
RunsWithinItsSession ==
  \A r \in ran :
    LET s == r.grant.session IN
    /\ r.inv.scope \in Allows[s] /\ r.grant.inv.policy = PolicyOf[s]
    /\ From[s] <= r.at /\ r.at < Until[s]

\* Its digest is the digest of what it says.
Intact(inv) == inv.digest = [scope |-> inv.scope, policy |-> inv.policy, args |-> inv.args]

\* What runs is the very invocation that was granted, policy and arguments
\* included, provided that neither was changed after it was resolved: one that
\* was, under the digest it had, passes for the one it was.
RunsWhatWasGranted ==
  \A r \in ran : Intact(r.inv) /\ Intact(r.grant.inv) => r.inv = r.grant.inv

\* A proposal never runs; an approved action runs only on an approval of that
\* very grant, resolution and digest, open at the time, which it used up.
ActionsAreApproved ==
  \A r \in ran :
    /\ r.grant.risk # "L2ProposedAction"
    /\ r.grant.risk = "L3ApprovedAction" =>
         \E a \in approvals : /\ a.grant = r.grant.id
                              /\ a.resolution = r.inv.resolution /\ a.digest = r.inv.digest
                              /\ a.from <= r.at /\ r.at < a.until
                              /\ a.id \in consumed

\* Executors that claim the same approval at once, or again, run one action.
ApprovalsAreOneShot == \A a \in ApprovalId : uses[a] <= 1

ExecutionIsAuthorised ==
  RunsWithinItsSession /\ RunsWhatWasGranted /\ ActionsAreApproved /\ ApprovalsAreOneShot

-----------------------------------------------------------------------------
\* What the proofs need besides: every grant lies in its session, a claim that
\* is under way is already covered, what ran carries the digest that was granted,
\* and an approval is marked when it is used.
EaTypeOK ==
  /\ now \in Nat /\ grants \subseteq Grant /\ approvals \subseteq Approval
  /\ consumed \subseteq ApprovalId
  /\ claim \in [Executor -> {NoClaim} \cup [pc : {"insert"}, run : Ran, by : ApprovalId]]
  /\ ran \subseteq Ran /\ uses \in [ApprovalId -> Nat]

GrantsAreNarrowed ==
  \A g \in grants :
    /\ g.inv.scope \in Allows[g.session] /\ g.inv.policy = PolicyOf[g.session]
    /\ g.risk # "L2ProposedAction"
    /\ From[g.session] <= g.issued /\ g.expires <= Until[g.session]

SameDigest(inv, granted) ==
  inv.resolution = granted.resolution /\ inv.digest = granted.digest /\ inv.scope = granted.scope

ClaimsAreCovered ==
  \A x \in Executor : claim[x].pc = "insert" =>
    LET r == claim[x].run IN
    /\ r.grant \in grants /\ SameDigest(r.inv, r.grant.inv)
    /\ r.grant.issued <= r.at /\ r.at < r.grant.expires
    /\ \E a \in approvals : /\ a.id = claim[x].by /\ a.grant = r.grant.id
                            /\ a.resolution = r.inv.resolution /\ a.digest = r.inv.digest
                            /\ a.from <= r.at /\ r.at < a.until

RunsCarryTheDigest == \A r \in ran : SameDigest(r.inv, r.grant.inv)

UsedOnceMarked == \A a \in ApprovalId : uses[a] = IF a \in consumed THEN 1 ELSE 0

EaInv == /\ EaTypeOK /\ GrantsAreNarrowed /\ ClaimsAreCovered /\ UsedOnceMarked
         /\ RunsCarryTheDigest /\ RunsWithinItsSession /\ ActionsAreApproved
=============================================================================
