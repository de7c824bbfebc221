------------------------------- MODULE Ledger -------------------------------
(***************************************************************************)
(* The client of the ledger service (ledger/client.go, ingest.go) over its  *)
(* HTTP transport.  A call prepares its request, which may refuse it, sends *)
(* it once, and answers with what came back or with the error that kept it *)
(* from knowing.  Nothing is retried and a request carries no key: what a  *)
(* caller may conclude from an answer is all it has.                       *)
(*                                                                         *)
(* The service is external.  It is taken to do what the client's           *)
(* documentation says of it: a batch is accepted whole or not at all, an   *)
(* initialisation never replaces a layer, a stamp never overwrites a       *)
(* fingerprint, a status of 2xx means that the request was carried out and  *)
(* one of 4xx that it was not, and only the service itself says 404.  Nor   *)
(* does anything redirect a request: net/http would follow it, and may turn *)
(* a POST into a GET.                                                      *)
(***************************************************************************)
EXTENDS Conversion, Naturals

CONSTANTS
  Consumers,
  LayerIDs,
  Refs,      \* the findings a caller can name
  Indexes,   \* the fingerprints a caller may have at hand, by reference
  Filters,   \* the filters callers pass to ListLayers
  OtherOps,  \* the other operations they call
  MaxCalls   \* bound: calls made in all

VARIABLES
  layers,    \* the service: what each layer holds; all belong to one product_repo
  wire,      \* requests on their way, those of callers that gave up among them
  replies,   \* answers on their way back
  call,      \* the open call of each consumer
  calls,     \* how many calls there have been: they number the requests
  answers    \* what each consumer has been told, in order

ledgerVars == <<layers, wire, replies, call, calls, answers>>

NoCall == [op |-> ""]
NoLayer == [exists |-> FALSE, events |-> {}, queue |-> {}]
Existing == {l \in LayerIDs : layers[l].exists}

LedgerInit ==
  /\ layers \in [LayerIDs -> {NoLayer, [NoLayer EXCEPT !.exists = TRUE]}]
  /\ wire = {} /\ replies = {} /\ calls = 0
  /\ call = [c \in Consumers |-> NoCall]
  /\ answers = [c \in Consumers |-> <<>>]

-----------------------------------------------------------------------------
(* Every call *)

Begin(c) == call[c] = NoCall /\ calls < MaxCalls /\ calls' = calls + 1

Request(op, layer, body) == [op |-> op, layer |-> layer, n |-> calls + 1, body |-> body]

Answer(c, request, outcome) ==
  answers' = [answers EXCEPT ![c] = Append(@, [request |-> request, outcome |-> outcome])]

Refuse(c, request, phase) ==
  /\ Answer(c, request, phase)
  /\ UNCHANGED <<layers, wire, replies, call>>

post(c, request) ==
  /\ call' = [call EXCEPT ![c] = request]
  /\ wire' = wire \cup {request}
  /\ UNCHANGED <<layers, replies, answers>>

-----------------------------------------------------------------------------
(* The submission lanes *)

EventFingerprints(events) == \A e \in events : e.item.fingerprint # ""

\* The batch a converted report travels as; what was skipped stays behind.
BatchSubmitInput_EventsOnly(report, converted) ==
  [report |-> report, Events |-> converted.Events, NeedsReview |-> {}]
BatchSubmitInput(report, converted) ==
  [report |-> report, Events |-> converted.Events, NeedsReview |-> converted.NeedsReview]

\* SubmitTriageReport, SubmitValidationReport and SubmitVerificationReport.
SubmitReport(c, layer, report, index) ==
  LET converted == Convert(report, index)
      request == Request("report", layer, BatchSubmitInput(report, converted))
  IN  /\ Begin(c)
      /\ \/ ~report.conforms /\ Refuse(c, request, "validate")
         \/ /\ report.conforms /\ ~EventFingerprints(converted.Events)
            /\ Refuse(c, request, "fingerprint")
         \/ /\ report.conforms /\ EventFingerprints(converted.Events)
            /\ post(c, request)

\* A caller may convert a report itself: nothing checks the batch then.
BatchSubmit(c, layer, report, index) ==
  Begin(c) /\ post(c, Request("batch", layer, BatchSubmitInput(report, Convert(report, index))))

-----------------------------------------------------------------------------
(* The operations on a layer, and the reads *)

InitializeLayer(c, layer) == Begin(c) /\ post(c, Request("initialize", layer, {}))

StampEventIdentities(c, layer, fingerprints) ==
  Begin(c) /\ post(c, Request("stamp", layer, fingerprints))

ResolveReviewItem(c, layer, key) == Begin(c) /\ post(c, Request("resolve", layer, key))

FindLayer(c) == Begin(c) /\ post(c, Request("find", "", {}))

\* Of the human lane (SubmitCountersign, SubmitSeverity), of SignLayer and
\* ComputeFingerprints, and of the reads, only how they end is modelled.
Ask(c, op, layer) == Begin(c) /\ post(c, Request(op, layer, {}))

Apply(filter) ==
  CASE filter.kind = "eq" -> filter.key # "" /\ filter.value # ""
    [] filter.kind = "in" ->
         /\ filter.key # "" /\ filter.value # {}
         /\ \A v \in filter.value : v # "" /\ v # "a,b"
    [] filter.kind = "range" -> filter.key # "" /\ filter.value # ""
    [] filter.kind = "raw" -> filter.key # "" /\ filter.op # "" /\ filter.value # ""
    [] filter.kind = "time" -> filter.value # "zero"
    [] filter.kind = "reviews" -> TRUE

ListLayers(c, filters) ==
  LET request == Request("list", "", filters)
  IN  /\ Begin(c)
      /\ \/ (\A f \in filters : Apply(f)) /\ post(c, request)
         \/ (\E f \in filters : ~Apply(f)) /\ Refuse(c, request, "filter")

-----------------------------------------------------------------------------
(* The service *)

Accepted(q) ==
  [layers EXCEPT ![q.layer].events =
                   @ \cup {[n |-> q.n, place |-> e.n, item |-> e.item] : e \in q.body.Events},
                 ![q.layer].queue =
                   @ \cup {[n |-> q.n, place |-> r.n, item |-> r.item, resolved |-> FALSE] :
                             r \in q.body.NeedsReview}]

Stamped(e, fingerprints) ==
  IF e.item.fingerprint = "" /\ e.item.ref \in fingerprints
  THEN [e EXCEPT !.item.fingerprint = e.item.ref] ELSE e

\* What the service may do with a request, and the status it then returns.
Effects(q) ==
  CASE q.op = "find" ->
         {[layers |-> layers, status |-> IF Existing = {} THEN "404" ELSE "2xx"]}
    [] q.op = "initialize" /\ q.layer \notin Existing ->
         {[layers |-> [layers EXCEPT ![q.layer].exists = TRUE], status |-> "2xx"]}
    [] q.op \in {"report", "batch"} /\ q.layer \in Existing ->
         {[layers |-> Accepted(q), status |-> "2xx"]}
    [] q.op = "stamp" /\ q.layer \in Existing ->
         {[layers |-> [layers EXCEPT ![q.layer].events = {Stamped(e, q.body) : e \in @}],
           status |-> "2xx"]}
    [] q.op = "resolve" /\ q.layer \in Existing ->
         {[layers |-> [layers EXCEPT ![q.layer].queue =
                         {[r EXCEPT !.resolved = @ \/ r.item = q.body] : r \in @}],
           status |-> "2xx"]}
    [] /\ q.op \notin {"find", "report", "batch", "stamp", "resolve"}
       /\ q.op = "list" \/ q.layer \in Existing -> {[layers |-> layers, status |-> "2xx"]}
    [] OTHER -> {}

\* Any request may be turned down, and a gateway may report an error of its own
\* for one that was carried out.
Refused == [layers |-> layers, status |-> "4xx"]
Obscured(effects) == {[x EXCEPT !.status = "5xx"] : x \in effects \cup {Refused}}

Awaited(q) == \E c \in Consumers : call[c] = q

Serve(q) ==
  /\ q \in wire
  /\ wire' = wire \ {q}
  /\ \E x \in Effects(q) \cup {Refused} \cup Obscured(Effects(q)) :
       /\ layers' = x.layers
       /\ replies' = IF Awaited(q)
                     THEN replies \cup {[n |-> q.n, status |-> x.status, found |-> Existing]}
                     ELSE replies
  /\ UNCHANGED <<call, calls, answers>>

-----------------------------------------------------------------------------
(* How a call ends *)

NoLayerStatus_Any(reply) == reply.status # "2xx"
NoLayerStatus(reply) == reply.status = "404"

Decoded(request, reply) ==
  CASE request.op # "find" -> "ok"
    [] request.op = "find" -> IF \E l \in LayerIDs : reply.found = {l} THEN "found" ELSE "ambiguous"

\* Of a 2xx, the body may still not decode.  A 404 is the service's own.
Outcomes(request, reply) ==
  IF request.op = "find" /\ NoLayerStatus(reply) THEN {"not found"}
  ELSE IF reply.status = "2xx" THEN {Decoded(request, reply), "decode"}
  ELSE {reply.status}

Receive(c, reply) ==
  /\ reply \in replies /\ call[c] # NoCall /\ call[c].n = reply.n
  /\ \E outcome \in Outcomes(call[c], reply) : Answer(c, call[c], outcome)
  /\ call' = [call EXCEPT ![c] = NoCall]
  /\ replies' = replies \ {reply}
  /\ UNCHANGED <<layers, wire, calls>>

\* The connection breaks or the context ends.  The request may be lost, served
\* already, or still arrive.
Fail(c) ==
  /\ call[c] # NoCall
  /\ Answer(c, call[c], "ingest")
  /\ call' = [call EXCEPT ![c] = NoCall]
  /\ replies' = {r \in replies : r.n # call[c].n}
  /\ UNCHANGED <<layers, wire, calls>>

-----------------------------------------------------------------------------

LocalPhases == {"validate", "fingerprint", "filter"}

Events(n) == UNION {{e \in layers[l].events : e.n = n} : l \in LayerIDs}
Queue(n) == UNION {{r \in layers[l].queue : r.n = n} : l \in LayerIDs}

At(n, i) == {x \in Events(n) \cup Queue(n) : x.place = i}

Submissions == {a \in UNION {{answers[c][i] : i \in DOMAIN answers[c]} : c \in Consumers} :
                  a.request.op \in {"report", "batch"}}

\* What a report decides: the findings a reader of it would look for on the layer.
Decides(lane, f) ==
  /\ TrimSpace(f.ref) # ""
  /\ CASE lane = "triage" -> f.verdict # "duplicate"
       [] lane = "validation" ->
            \/ f.verdict \in {"confirmed", "refuted"}
            \/ f.verdict = "inconclusive" /\ flagged(f)
       [] lane = "verification" -> TRUE

\* The findings of a report are on the layer, each once: as an event or as an
\* item for review, never as both.
Whole(request) ==
  LET report == request.body.report
  IN  \A i \in {j \in DOMAIN report.findings : Decides(report.lane, report.findings[j])} :
        \E e \in At(request.n, i) :
          /\ At(request.n, i) = {e}
          /\ e.item.ref = TrimSpace(report.findings[i].ref)
          /\ e \in Events(request.n) /\ request.op = "report" => e.item.fingerprint # ""

Absent(request) == Events(request.n) = {} /\ Queue(request.n) = {}

\* What a submission is answered is true of the layer, then and ever after.
\* Success, and a reply that could not be decoded, mean that everything the
\* report decides is there; a refusal, the service's or the client's own, means
\* that nothing of it is there or on its way; after any other error the layer
\* has all of it or nothing (ingest.go:38-89, errors.go:12-19).
AnswersAreTrue ==
  \A a \in Submissions :
    /\ a.outcome \in {"ok", "decode"} => Whole(a.request)
    /\ a.outcome \in LocalPhases \cup {"4xx"} => Absent(a.request) /\ a.request \notin wire
    /\ a.outcome \in {"ingest", "5xx"} => Absent(a.request) \/ Whole(a.request)

\* A caller that has initialised the layer of a product_repo is never told
\* afterwards that there is none, which would make it initialise a second one:
\* an outage is not an answer (client.go:230-231, "found is false when the
\* ledger has none").
OwnLayerIsFound ==
  \A c \in Consumers : \A i, j \in DOMAIN answers[c] :
    i < j /\ answers[c][i].request.op = "initialize" /\ answers[c][i].outcome = "ok"
      => answers[c][j].outcome # "not found"

LayerEvent ==
  [n : 1 .. MaxCalls, place : Nat,
   item : [ref : Refs \cup {" "}, lane : Lanes, source : Nat, grade : {"", "E0", "E1", "E2", "E3"},
           fingerprint : Refs \cup {""}, occurredAt : {"instant", "midnight"},
           disposition : {"confirmed", "hardening", "false_positive", "resolved", "open",
                          "fix_in_progress", "partially_resolved", "regression_introduced",
                          "risk_accepted"}]]

LedgerTypeOK ==
  /\ \A l \in LayerIDs : layers[l].events \subseteq LayerEvent
  /\ \A l \in LayerIDs : layers[l].events \cup layers[l].queue # {} => layers[l].exists
  /\ calls \in 0 .. MaxCalls
  /\ \A q \in wire : q.n <= calls
  /\ \A c \in Consumers : call[c] = NoCall \/ call[c].n <= calls
  /\ \A r \in replies : \E c \in Consumers : call[c] # NoCall /\ call[c].n = r.n
=============================================================================
