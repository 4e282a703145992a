------------------------------- MODULE RuntimeClient -------------------------------
(***************************************************************************)
(* services/local_inference.rs, commands/local_inference.rs (load, unload) *)
(* commands/omlx_settings.rs and commands/local_inference_ops.rs: requests *)
(* to the oMLX server over loopback HTTP. A load is measured, decided on,  *)
(* authenticated and sent, with an await between any two of these; the     *)
(* answer of the server may come too late.                                 *)
(***************************************************************************)
EXTENDS RuntimeRules, FiniteSets

CONSTANTS RcCall,     \* requests of the user
          RcModel,    \* models of the server
          ModelSize,  \* bytes the server reports for each
          RcLimit,    \* Metal wired limits, in MiB, that sysctl may report
          MaxEpoch    \* bound: restarts of the server

ASSUME RuntimeClientAssumption ==
  MaxEpoch \in Nat /\ RcLimit \subseteq Nat /\ ModelSize \in [RcModel -> Nat]

VARIABLES
  server,    \* up, whether an API key is configured, its incarnation
  served,    \* models that are loaded or being loaded
  req,       \* each request
  acted,     \* history: requests the server carried out
  keySent    \* history: endpoints an API key was sent to

rcVars == <<server, served, req, acted, keySent>>

NoEvidence == [pressure |-> "normal", thermal |-> "nominal", training |-> FALSE,
               limit |-> Unknown, size |-> Unknown]
IdleReq == [pc |-> "idle", op |-> "load", at |-> "loopback", model |-> "bad-id", key |-> "none",
            ev |-> NoEvidence, decision |-> "none", cookie |-> 0, result |-> "none"]

Pressures == {"normal", "warn", "critical", "unknown"}
Thermals == {"nominal", "fair", "serious", "unknown"}

RcInit ==
  /\ server \in [up : BOOLEAN, keyed : BOOLEAN, epoch : {1}]
  /\ served = {}
  /\ req = [c \in RcCall |-> IdleReq]
  /\ acted = {} /\ keySent = {}

RcGoes(c, r) == req' = [req EXCEPT ![c] = r]
RcEnds(c, result) == RcGoes(c, [req[c] EXCEPT !.pc = "done", !.result = result])
----------------------------------------------------------------------------
(* The server comes and goes on its own. *)
ServerToggles ==
  /\ server.epoch < MaxEpoch
  /\ server' = [server EXCEPT !.up = ~@, !.epoch = @ + 1]
  /\ served' = {}
  /\ UNCHANGED <<req, acted, keySent>>

----------------------------------------------------------------------------
(* parse_loopback_endpoint, and the checks of the model id. *)
Loopback(at) == at = "loopback"

ValidId(model) == model \in RcModel

(* load_omlx_model: the live probe, which never fails: the size is the    *)
(* server's when its admin list can be had, else the one of the request.  *)
AdminListed(c) == server.up /\ server.keyed /\ req[c].key = "good" /\ Loopback(req[c].at)

Ask(c, op, at, model, key) ==
  /\ req[c].pc = "idle"
  /\ RcGoes(c, [IdleReq EXCEPT !.pc = IF op = "load" THEN "probe" ELSE "check",
                             !.op = op, !.at = at, !.model = model, !.key = key])
  /\ UNCHANGED <<server, served, acted, keySent>>

Probe(c) ==
  /\ req[c].pc = "probe"
  /\ \E listed \in BOOLEAN, estimate \in {Unknown} \cup {ModelSize[m] : m \in RcModel} :
       /\ listed => AdminListed(c)
       /\ RcGoes(c, [req[c] EXCEPT !.pc = "measure",
            !.ev.size = IF listed /\ ValidId(req[c].model) THEN ModelSize[req[c].model] ELSE estimate])
  /\ keySent' = keySent \cup (IF req[c].key # "none" /\ Loopback(req[c].at) THEN {req[c].at} ELSE {})
  /\ UNCHANGED <<server, served, acted>>

(* preflight: the guardrail status is measured, then the training slot read. *)
MeasureHost(c) ==
  /\ req[c].pc = "measure"
  /\ \E p \in Pressures, t \in Thermals :
       RcGoes(c, [req[c] EXCEPT !.pc = "slot", !.ev.pressure = p, !.ev.thermal = t])
  /\ UNCHANGED <<server, served, acted, keySent>>

Preflight(c) ==
  /\ req[c].pc = "slot"
  /\ \E limit \in {Unknown} \cup RcLimit, training \in BOOLEAN :
       LET e == [req[c].ev EXCEPT !.training = training, !.limit = limit] IN
       RcGoes(c, [req[c] EXCEPT !.ev = e, !.decision = Decision(e),
                  !.pc = IF Decision(e) = "deny" THEN "done" ELSE "check",
                  !.result = IF Decision(e) = "deny" THEN "denied" ELSE "none"])
  /\ UNCHANGED <<server, served, acted, keySent>>

(* omlx_model_action, set_omlx_model_settings_sparse: nothing is sent for a *)
(* bad id, an empty key or an endpoint elsewhere.                           *)
Refuse(c) ==
  /\ req[c].pc = "check"
  /\ ~ValidId(req[c].model) \/ req[c].key = "none" \/ ~Loopback(req[c].at)
  /\ RcEnds(c, "refused")
  /\ UNCHANGED <<server, served, acted, keySent>>

(* omlx_admin_session: a login the server refuses, or whose answer is lost *)
(* or carries no cookie, is an error; else the cookie of this server.      *)
Login(c) ==
  /\ req[c].pc = "check"
  /\ ValidId(req[c].model) /\ req[c].key # "none" /\ Loopback(req[c].at)
  /\ keySent' = keySent \cup {req[c].at}
  /\ \/ RcEnds(c, "error")
     \/ /\ server.up /\ server.keyed /\ req[c].key = "good"
        /\ RcGoes(c, [req[c] EXCEPT !.pc = "send", !.cookie = server.epoch])
  /\ UNCHANGED <<server, served, acted>>

(* The request proper: refused with another incarnation's cookie; carried  *)
(* out, and then answered in time or, after five seconds, taken for lost.  *)
Effect(c) ==
  CASE req[c].op = "load" -> served \cup {req[c].model}
    [] req[c].op = "unload" -> served \ {req[c].model}
    [] OTHER -> served

\* Mutant of Send: a response of any status is a success.
SendAnyStatus(c) ==
  /\ req[c].pc = "send"
  /\ \/ RcEnds(c, "error") /\ UNCHANGED <<served, acted>>
     \/ server.up /\ RcEnds(c, "ok") /\ UNCHANGED <<served, acted>>
  /\ UNCHANGED <<server, keySent>>

Send(c) ==
  /\ req[c].pc = "send"
  /\ \/ RcEnds(c, "error") /\ UNCHANGED <<served, acted>>
     \/ /\ server.up /\ req[c].cookie # server.epoch
        /\ RcEnds(c, "not-ok") /\ UNCHANGED <<served, acted>>
     \/ /\ server.up /\ req[c].cookie = server.epoch
        /\ served' = Effect(c) /\ acted' = acted \cup {c}
        /\ \E result \in {"ok", "error"} : RcEnds(c, result)
  /\ UNCHANGED <<server, keySent>>

----------------------------------------------------------------------------
RcStep(c) ==
  Probe(c) \/ MeasureHost(c) \/ Preflight(c) \/ Refuse(c) \/ Login(c) \/ Send(c)

RcNext ==
  \/ ServerToggles
  \/ \E c \in RcCall :
       \/ RcStep(c)
       \/ \E op \in {"load", "unload", "settings"}, at \in {"loopback", "elsewhere"},
             model \in RcModel \cup {"bad-id"}, key \in {"none", "wrong", "good"} :
            Ask(c, op, at, model, key)

RcSpec == RcInit /\ [][RcNext]_rcVars
----------------------------------------------------------------------------
(* What a request reports is true, however the server and the host change   *)
(* under it: a success was carried out by the server, a denied or refused   *)
(* request never reached it, no load was carried out that the preflight     *)
(* denied, and an API key was sent to loopback only.                        *)
ReportsAreTrue ==
  /\ keySent \subseteq {"loopback"}
  /\ \A c \in RcCall :
       /\ req[c].result = "ok" => c \in acted
       /\ req[c].result \in {"denied", "refused"} => c \notin acted
       /\ (c \in acted /\ req[c].op = "load") => req[c].decision \in {"allow", "warn"}

Varied(e, p, t, b, s) ==
  [e EXCEPT !.pressure = p, !.thermal = t, !.training = b, !.size = s]

(* Whatever evidence a load was decided on, worse evidence would not have   *)
(* let it in more easily: no later check of the preflight takes back what   *)
(* an earlier one found.                                                    *)
PreflightIsMonotone ==
  \A c \in RcCall : req[c].decision # "none" =>
    \A p \in Pressures, t \in Thermals, b \in BOOLEAN, s \in {Unknown} \cup {ModelSize[m] : m \in RcModel} :
      LET f == Varied(req[c].ev, p, t, b, s) IN
      Worse(req[c].ev, f) => DecisionRank(req[c].decision) <= DecisionRank(Decision(f))

(* What the program says of a load is true, and was judged on its evidence. *)
LoadsAreJudged == ReportsAreTrue /\ PreflightIsMonotone
=============================================================================
