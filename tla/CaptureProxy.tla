---------------------------- MODULE CaptureProxy ----------------------------
(***************************************************************************)
(* Interception and capture of proxied traffic: ordered rules decide over   *)
(* a request (capture/interceptor.py); the proxy's hooks apply the decision, *)
(* store completed flows of a resolved target and publish                    *)
(* (capture/mitm_addon.py). A request is as it came or modified.             *)
(***************************************************************************)
EXTENDS Naturals, Sequences

CONSTANTS
  Flows,
  Rules,       \* rules that may be configured: [act, when]
  MaxRules     \* bound

VARIABLES
  db,    \* target: is its row there; rows: flows stored and how, [flow, modified]
  mem,   \* rules: the ordered list; scoped: is the flows' host in scope; sink:
         \* does the event endpoint answer; said: what was published
  proc   \* at: where a flow's hooks are; verdict: its decision; wire: what was
         \* forwarded; mapped: did the resolver name a target

vars == <<db, mem, proc>>

Fresh == [act |-> "forward", modified |-> FALSE, dropped |-> FALSE, replay |-> FALSE, hits |-> 0]

Init ==
  /\ db = [target |-> TRUE, rows |-> {}]
  /\ mem = [rules |-> <<>>, scoped |-> TRUE, sink |-> TRUE, said |-> {}]
  /\ proc = [at |-> [f \in Flows |-> "new"], verdict |-> [f \in Flows |-> Fresh],
             wire |-> [f \in Flows |-> "none"], mapped |-> [f \in Flows |-> FALSE]]

------------------------------------------------------------------------------
(* Interceptor.evaluate: rules see what earlier rules changed; a drop ends it. *)

Matches(rule, d) ==
  CASE rule.when = "any" -> TRUE
    [] rule.when = "modified" -> d.modified
    [] rule.when = "original" -> ~d.modified

Apply(rule, d) ==
  [act |-> rule.act, hits |-> d.hits + 1,
   modified |-> d.modified \/ rule.act = "modify",
   dropped |-> rule.act = "drop", replay |-> d.replay \/ rule.act = "replay"]

Evaluate(rules) ==
  LET D[i \in 0 .. Len(rules)] ==
        IF i = 0 THEN Fresh
        ELSE IF D[i-1].dropped \/ ~Matches(rules[i], D[i-1]) THEN D[i-1]
        ELSE Apply(rules[i], D[i-1])
  IN D[Len(rules)]

Publish(events) == mem' = IF mem.sink THEN [mem EXCEPT !.said = @ \cup events] ELSE mem
Quiet == UNCHANGED mem

------------------------------------------------------------------------------
(* The hooks.                                                                 *)

\* Out of scope nothing is decided.
Request(f) ==
  LET d == IF mem.scoped THEN Evaluate(mem.rules) ELSE Fresh IN
  /\ proc.at[f] = "new"
  /\ proc' = [proc EXCEPT !.at[f] = IF d.hits > 0 THEN "announce" ELSE "forward", !.verdict[f] = d,
                          !.wire[f] = IF d.act = "modify" THEN "modified" ELSE "original"]
  /\ UNCHANGED <<db, mem>>

\* Mutant: a dropped request is announced and then forwarded.
DropOnlySays(f) ==
  /\ proc.at[f] = "announce"
  /\ Publish({[flow |-> f, topic |-> "intercepted", modified |-> proc.verdict[f].modified]})
  /\ proc' = [proc EXCEPT !.at[f] = "forward"]
  /\ UNCHANGED db

\* A drop kills the flow; the events come before the request is forwarded, and
\* do not hold it up when nobody takes them.
Announce(f) ==
  LET d == proc.verdict[f] IN
  /\ proc.at[f] = "announce"
  /\ Publish({[flow |-> f, topic |-> "intercepted", modified |-> d.modified /\ ~d.dropped]} \cup
             (IF d.replay /\ ~d.dropped THEN {[flow |-> f, topic |-> "replay", modified |-> FALSE]} ELSE {}))
  /\ proc' = [proc EXCEPT !.at[f] = IF d.dropped THEN "killed" ELSE "forward"]
  /\ UNCHANGED db

\* The server answers the forwarded request, or the connection is lost.
Answer(f) ==
  /\ proc.at[f] = "forward"
  /\ \E p \in {"response", "over"} : proc' = [proc EXCEPT !.at[f] = p]
  /\ UNCHANGED <<db, mem>>

\* The next message of a WebSocket is resolved, stored and published the same way.
WebSocketMessage(f) ==
  /\ proc.at[f] = "over" /\ proc' = [proc EXCEPT !.at[f] = "response"]
  /\ UNCHANGED <<db, mem>>

\* target_resolver: only a host in scope of a target there is.
Resolve(f) ==
  /\ proc.at[f] = "response"
  /\ IF mem.scoped /\ db.target
       THEN proc' = [proc EXCEPT !.at[f] = "insert", !.mapped[f] = TRUE] /\ Quiet
       ELSE /\ proc' = [proc EXCEPT !.at[f] = "over"]
            /\ Publish({[flow |-> f, topic |-> "skipped", modified |-> FALSE]})
  /\ UNCHANGED db

Captured(f) == [flow |-> f, topic |-> "captured", modified |-> proc.wire[f] = "modified"]

\* The row refers to the target; a failure is published instead of the flow.
Insert(f) ==
  /\ proc.at[f] = "insert"
  /\ IF db.target
       THEN /\ db' = [db EXCEPT !.rows = @ \cup {[flow |-> f, modified |-> proc.wire[f] = "modified"]}]
            /\ proc' = [proc EXCEPT !.at[f] = "publish"] /\ Quiet
       ELSE /\ proc' = [proc EXCEPT !.at[f] = "over"] /\ UNCHANGED db
            /\ Publish({[flow |-> f, topic |-> "error", modified |-> FALSE]})

PublishCaptured(f) ==
  /\ proc.at[f] = "publish" /\ Publish({Captured(f)})
  /\ proc' = [proc EXCEPT !.at[f] = "over"] /\ UNCHANGED db

------------------------------------------------------------------------------
(* Around the hooks.                                                          *)

AddRule(r) ==
  /\ Len(mem.rules) < MaxRules
  /\ mem' = [mem EXCEPT !.rules = Append(@, r)] /\ UNCHANGED <<db, proc>>

\* The first rule of a name goes.
RemoveRule(i) ==
  /\ i \in DOMAIN mem.rules
  /\ mem' = [mem EXCEPT !.rules = SubSeq(@, 1, i-1) \o SubSeq(@, i+1, Len(@))]
  /\ UNCHANGED <<db, proc>>

Narrow == mem.scoped /\ mem' = [mem EXCEPT !.scoped = FALSE] /\ UNCHANGED <<db, proc>>
LoseSink == mem.sink /\ mem' = [mem EXCEPT !.sink = FALSE] /\ UNCHANGED <<db, proc>>

\* Flows go with their target.
DeleteTarget ==
  db.target /\ db' = [target |-> FALSE, rows |-> {}] /\ UNCHANGED <<mem, proc>>

Next ==
  \/ \E f \in Flows : Request(f) \/ Announce(f) \/ Answer(f) \/ Resolve(f) \/ Insert(f) \/ PublishCaptured(f)
                      \/ WebSocketMessage(f)
  \/ \E r \in Rules : AddRule(r)
  \/ \E i \in 1 .. MaxRules : RemoveRule(i)
  \/ Narrow \/ LoseSink \/ DeleteTarget

Spec == Init /\ [][Next]_vars

------------------------------------------------------------------------------
\* A flow is stored only if it was forwarded and belonged to a target, and it is
\* announced as captured only if it was stored, whatever was deleted, narrowed
\* or dropped between the hooks.
CapturedWasSent ==
  /\ \A r \in db.rows : ~proc.verdict[r.flow].dropped /\ proc.mapped[r.flow]
  /\ db.target => \A e \in mem.said : e.topic = "captured" =>
       [flow |-> e.flow, modified |-> e.modified] \in db.rows

\* "Apply configured interceptor rules before forwarding a request"
\* (mitm_addon.py): what matching rules modified is what goes to the server.
ModifiedIsForwarded ==
  \A f \in Flows : proc.at[f] = "response" => (proc.verdict[f].modified <=> proc.wire[f] = "modified")
=============================================================================
