--------------------------- MODULE Transformation ---------------------------
(***************************************************************************)
(* The transformation adapter (pkg/flow/adapter/transformation).  Requests *)
(* are handled concurrently and share the transformers of the two          *)
(* pipelines and one Storage, which keeps the variables of an event under  *)
(* eventUniqueID.  A JSON document is a map from paths to values; paths    *)
(* are atoms of which none contains another.                               *)
(***************************************************************************)
EXTENDS Integers, Sequences

CONSTANTS
    Handlers,     \* the goroutines that handle requests, one after another
    Events,       \* [id, source, json, context, data]; id and source are words
    Pipelines,    \* the configurations: [context, data] of sequences of operations,
                  \* each [op, key, to, value, var, dot]
    Paths,        \* JSON paths
    Variables,    \* names of variables
    Texts,        \* texts, names of variables included
    parseJSON,    \* what the texts that hold encoded JSON decode to
    Undecodable,  \* documents that are no CloudEvents context
    Nil,          \* JSON null, and the value of a path that is missing
    Unset,        \* a variable that is not in the storage
    Malformed,    \* data that is not JSON
    Torn          \* what a read of a string sees while another is written to it

ASSUME TransformationAssumption ==
    /\ Variables \subseteq Texts /\ Nil \notin Texts /\ Unset \notin Texts \cup {Nil}
    /\ Torn \notin Texts
    /\ DOMAIN parseJSON \subseteq Texts /\ \A s \in DOMAIN parseJSON : parseJSON[s] \in Texts

Documents == [Paths -> Texts \cup {Nil}]

Parts == {"context", "data"}

\* The operations of a configuration: var is the name of a variable that the value
\* of an add operation is, or has in brackets, and dot says that the path starts
\* where a document does.
Operation(o) ==
    /\ o.op \in {"store", "parse", "shift", "add", "delete"}
    /\ o.op = "store" => o.key \in Variables /\ o.value \in Paths
    /\ o.op \in {"parse", "shift", "add"} => o.key \in Paths
    /\ o.op = "shift" => o.to \in Paths
    /\ o.op \in {"shift", "add", "delete"} => o.value \in Texts

ASSUME ConfigurationAssumption ==
    /\ "" \in Texts
    /\ \A c \in Pipelines :
          /\ DOMAIN c = Parts
          /\ \A p \in Parts : c[p] \in Seq({c[p][i] : i \in DOMAIN c[p]}) /\ \A i \in DOMAIN c[p] : Operation(c[p][i])
    /\ \A e \in Events : e.context \in Documents /\ e.data \in Documents \cup {Malformed}

VARIABLES
    pipelines,    \* the configuration
    storage,      \* Storage.data: the variables of each event
    filters,      \* Delete.Value of the transformers of each pipeline
    pc,           \* where a handler is
    event,        \* the event of the request
    doc,          \* eventContext and eventPayload
    at,           \* position in the program the handler runs
    found,        \* the value Delete.Apply is about to write
    result,       \* the answer to the request
    overlapped    \* a request with the same eventUniqueID was handled meanwhile

handlerVars == <<pc, event, doc, at, found, result, overlapped>>
vars == <<pipelines, storage, filters, handlerVars>>

\* fmt.Sprintf("%s-%s", event.ID(), event.Source())
eventUniqueID(e) == e.id \o <<"-">> \o e.source

UniqueIDs == {eventUniqueID(e) : e \in Events}

InitStep(op) == op.op \in {"store", "parse"}

\* The transformers of a pipeline that apply runs for a value of init.
apply(c, part, init) ==
    LET upTo[i \in 0..Len(c[part])] ==
          IF i = 0 THEN <<>>
          ELSE IF InitStep(c[part][i]) = init THEN Append(upTo[i - 1], <<part, i>>)
          ELSE upTo[i - 1]
    IN upTo[Len(c[part])]

\* The order in which applyTransformations runs them: the context is decoded between
\* the transformations of the context and those of the data.
applyTransformations ==
    [c \in Pipelines |->
        apply(c, "context", TRUE) \o apply(c, "data", TRUE) \o apply(c, "context", FALSE)
        \o <<<<"decode", 0>>>> \o apply(c, "data", FALSE)]

Program == applyTransformations[pipelines]

Busy == {"apply", "compose", "write", "filter"}

TypeOK ==
    /\ pipelines \in Pipelines
    /\ storage \in [UniqueIDs -> [Variables -> Texts \cup {Nil, Unset}]]
    /\ \A p \in Parts :
          /\ DOMAIN filters[p] = DOMAIN pipelines[p]
          /\ \A i \in DOMAIN filters[p] :
                pipelines[p][i].op = "delete" => filters[p][i] \in Texts \cup {Torn}
    /\ pc \in [Handlers -> Busy \cup {"idle", "answer", "done"}]
    /\ \A h \in Handlers : pc[h] # "idle" =>
          /\ event[h] \in Events
          /\ doc[h].context \in Documents /\ doc[h].data \in Documents \cup {Malformed}
          /\ at[h] \in 1..(Len(Program) + 1)
    /\ found \in [Handlers -> Texts \cup {Nil, Torn}]
    /\ result \in [Handlers -> {"none", "transformed", "refused", "error"}]
    /\ overlapped \in [Handlers -> BOOLEAN]

Init ==
    /\ pipelines \in Pipelines
    /\ storage = [u \in UniqueIDs |-> [v \in Variables |-> Unset]]
    /\ filters = [p \in Parts |-> [i \in DOMAIN pipelines[p] |-> pipelines[p][i].value]]
    /\ pc = [h \in Handlers |-> "idle"]
    /\ event = [h \in Handlers |-> Nil]
    /\ doc = [h \in Handlers |-> Nil]
    /\ at = [h \in Handlers |-> 1]
    /\ found = [h \in Handlers |-> Nil]
    /\ result = [h \in Handlers |-> "none"]
    /\ overlapped = [h \in Handlers |-> FALSE]

----------------------------------------------------------------------------
(* A handler and its position. *)

ID(h) == eventUniqueID(event[h])

Position(h) == Program[at[h]]

\* The handler is about to run a transformer of this operation.
Runs(h, name) ==
    /\ at[h] <= Len(Program)
    /\ Position(h)[1] \in Parts
    /\ pipelines[Position(h)[1]][Position(h)[2]].op = name

op(h) == pipelines[Position(h)[1]][Position(h)[2]]

Document(h) == doc[h][Position(h)[1]]

\* A transformer returns its document and apply goes on to the next one.
Returns(h, document) ==
    /\ doc' = [doc EXCEPT ![h][Position(h)[1]] = document]
    /\ at' = [at EXCEPT ![h] = @ + 1]
    /\ pc' = [pc EXCEPT ![h] = "apply"]
    /\ UNCHANGED <<pipelines, event, result, overlapped>>

----------------------------------------------------------------------------
(* What the transformers make of a document. *)

MergeJSONWithMap(document, path, value) ==
    IF document = Malformed THEN document ELSE [document EXCEPT ![path] = value]

\* Shift.Apply, with the value expected at the path.
shift(document, o, expected) ==
    IF document = Malformed \/ document[o.key] = Nil \/ (o.value # "" /\ document[o.key] # expected)
    THEN document
    ELSE [document EXCEPT ![o.key] = Nil, ![o.to] = document[o.key]]

\* Parse.Apply: a wrong type, or a value that is no encoded JSON, is an error.
parse(document, o) ==
    IF document # Malformed /\ o.value = "json" /\ document[o.key] \in DOMAIN parseJSON
    THEN [document EXCEPT ![o.key] = parseJSON[document[o.key]]]
    ELSE document

\* Delete.filter for the value of d.Value that the call reads.
filter(o, path, value, expected) ==
    /\ o.key # "" => o.dot /\ path = o.key
    /\ expected # "" => value = expected

\* Delete.parse, which reads d.Value anew for each path.
deleteParse(document, o, expected) ==
    IF document = Malformed THEN document
    ELSE [p \in Paths |-> IF filter(o, p, document[p], expected[p]) THEN Nil ELSE document[p]]

\* Add.composeValue after it found the variable: a variable without a value stands
\* for its own name, and vanishes with the brackets around it.
composeValue(o, stored) ==
    IF stored # Nil THEN stored ELSE IF o.value = o.var THEN o.var ELSE ""

\* Mutant of Get: a variable that was flushed is not noticed.
GetUnchecked(variables, key) == IF key \in Variables THEN variables[key] ELSE Nil

\* Storage.Get.
Get(variables, key) ==
    IF key \in Variables /\ variables[key] # Unset THEN variables[key] ELSE Nil

\* retrieveInterface and retrieveString.
retrieve(variables, key) == IF Get(variables, key) # Nil THEN Get(variables, key) ELSE key

----------------------------------------------------------------------------
(* Requests. *)

\* receiveAndReply or receiveAndSend is called; applyTransformations refuses data
\* that does not claim to be JSON.
Receive(h) ==
    /\ pc[h] \in {"idle", "done"}
    /\ \E e \in Events :
          LET same == {x \in Handlers : pc[x] \in Busy /\ ID(x) = eventUniqueID(e)}
          IN /\ event' = [event EXCEPT ![h] = e]
             /\ doc' = [doc EXCEPT ![h] = [context |-> e.context, data |-> e.data]]
             /\ pc' = [pc EXCEPT ![h] = IF e.json THEN "apply" ELSE "done"]
             /\ result' = [result EXCEPT ![h] = IF e.json THEN "none" ELSE "error"]
             /\ overlapped' = [x \in Handlers |->
                    IF x = h THEN same # {} ELSE overlapped[x] \/ (e.json /\ x \in same)]
    /\ at' = [at EXCEPT ![h] = 1]
    /\ UNCHANGED <<pipelines, storage, filters, found>>

\* Mutant of Set: all events share their variables.
SetForAll(variables, id, key, value) ==
    [u \in DOMAIN variables |-> [variables[u] EXCEPT ![key] = value]]

\* Storage.Set.
Set(variables, id, key, value) == [variables EXCEPT ![id][key] = value]

Store(h) ==
    /\ pc[h] = "apply" /\ Runs(h, "store")
    /\ storage' = IF Document(h) = Malformed THEN storage
                  ELSE Set(storage, ID(h), op(h).key, Document(h)[op(h).value])
    /\ Returns(h, Document(h))
    /\ UNCHANGED <<filters, found>>

Parse(h) ==
    /\ pc[h] = "apply" /\ Runs(h, "parse")
    /\ Returns(h, parse(Document(h), op(h)))
    /\ UNCHANGED <<storage, filters, found>>

Shift(h) ==
    /\ pc[h] = "apply" /\ Runs(h, "shift")
    /\ Returns(h, shift(Document(h), op(h), retrieve(storage[ID(h)], op(h).value)))
    /\ UNCHANGED <<storage, filters, found>>

\* Add.Apply lists the variables of the event, and the value has none of them.
AddText(h) ==
    /\ pc[h] = "apply" /\ Runs(h, "add")
    /\ op(h).var \in Variables => storage[ID(h)][op(h).var] = Unset
    /\ Returns(h, MergeJSONWithMap(Document(h), op(h).key, op(h).value))
    /\ UNCHANGED <<storage, filters, found>>

\* The value has one: it is read after the storage was unlocked.
AddFindVariable(h) ==
    /\ pc[h] = "apply" /\ Runs(h, "add")
    /\ op(h).var \in Variables /\ storage[ID(h)][op(h).var] # Unset
    /\ pc' = [pc EXCEPT ![h] = "compose"]
    /\ UNCHANGED <<pipelines, storage, filters, event, doc, at, found, result, overlapped>>

AddVariable(h) ==
    /\ pc[h] = "compose"
    /\ Returns(h, MergeJSONWithMap(Document(h), op(h).key,
                                   composeValue(op(h), Get(storage[ID(h)], op(h).var))))
    /\ UNCHANGED <<storage, filters, found>>

\* What a read of a transformer's d.Value may see.
Reads(part, i) ==
    LET writers == {x \in Handlers : pc[x] = "write" /\ Position(x) = <<part, i>>}
        written == {found[x] : x \in writers} \ {filters[part][i]}
    IN {filters[part][i]} \cup written \cup (IF written = {} THEN {} ELSE {Torn})

\* d.Value = d.retrieveString(eventID, d.Value), the read.
DeleteRetrieve(h) ==
    /\ pc[h] = "apply" /\ Runs(h, "delete")
    /\ \E value \in Reads(Position(h)[1], Position(h)[2]) :
          found' = [found EXCEPT ![h] = retrieve(storage[ID(h)], value)]
    /\ pc' = [pc EXCEPT ![h] = "write"]
    /\ UNCHANGED <<pipelines, storage, filters, event, doc, at, result, overlapped>>

\* The write.  Nothing orders it with the writes of other handlers.
DeleteAssign(h) ==
    /\ pc[h] = "write"
    /\ LET t == Position(h)
           clash == \E x \in Handlers :
                       pc[x] = "write" /\ Position(x) = t /\ found[x] # found[h]
       IN \E value \in {found[h]} \cup (IF clash THEN {Torn} ELSE {}) :
             filters' = [filters EXCEPT ![t[1]][t[2]] = value]
    /\ pc' = [pc EXCEPT ![h] = "filter"]
    /\ UNCHANGED <<pipelines, storage, event, doc, at, found, result, overlapped>>

DeleteFilter(h) ==
    /\ pc[h] = "filter"
    /\ \E expected \in [Paths -> Reads(Position(h)[1], Position(h)[2])] :
          Returns(h, deleteParse(Document(h), op(h), expected))
    /\ found' = [found EXCEPT ![h] = Nil]
    /\ UNCHANGED <<storage, filters>>

\* Storage.Flush, which applyTransformations defers.
Flush(id) == storage' = [storage EXCEPT ![id] = [v \in Variables |-> Unset]]

\* Mutant of DecodeContext: the event is refused before the deferred call.
DecodeContextNoFlush(h) ==
    /\ pc[h] = "apply" /\ at[h] <= Len(Program) /\ Position(h)[1] = "decode"
    /\ IF doc[h].context \in Undecodable
       THEN /\ pc' = [pc EXCEPT ![h] = "done"]
            /\ result' = [result EXCEPT ![h] = "error"]
            /\ UNCHANGED at
       ELSE /\ at' = [at EXCEPT ![h] = @ + 1]
            /\ UNCHANGED <<pc, result>>
    /\ UNCHANGED <<pipelines, storage, filters, event, doc, found, overlapped>>

\* Mutant of DecodeContext: on an error the handler returns without an answer.
DecodeContextSilent(h) ==
    /\ pc[h] = "apply" /\ at[h] <= Len(Program) /\ Position(h)[1] = "decode"
    /\ IF doc[h].context \in Undecodable
       THEN /\ Flush(ID(h))
            /\ pc' = [pc EXCEPT ![h] = "done"]
            /\ UNCHANGED at
       ELSE /\ at' = [at EXCEPT ![h] = @ + 1]
            /\ UNCHANGED <<storage, pc>>
    /\ UNCHANGED <<pipelines, filters, event, doc, found, result, overlapped>>

\* The transformed context is decoded, or the event is refused.  An encoding error
\* before, and one of SetExtension or SetData after, end the request the same way.
DecodeContext(h) ==
    /\ pc[h] = "apply" /\ at[h] <= Len(Program) /\ Position(h)[1] = "decode"
    /\ IF doc[h].context \in Undecodable
       THEN /\ Flush(ID(h))
            /\ pc' = [pc EXCEPT ![h] = "done"]
            /\ result' = [result EXCEPT ![h] = "error"]
            /\ UNCHANGED at
       ELSE /\ at' = [at EXCEPT ![h] = @ + 1]
            /\ UNCHANGED <<storage, pc, result>>
    /\ UNCHANGED <<pipelines, filters, event, doc, found, overlapped>>

\* applyTransformations returns.
Finish(h) ==
    /\ pc[h] = "apply" /\ at[h] > Len(Program)
    /\ Flush(ID(h))
    /\ pc' = [pc EXCEPT ![h] = "answer"]
    /\ UNCHANGED <<pipelines, filters, event, doc, at, found, result, overlapped>>

\* The event is sent to the sink, which may refuse it, or is the reply.
Answer(h) ==
    /\ pc[h] = "answer"
    /\ result' \in {[result EXCEPT ![h] = r] : r \in {"transformed", "refused"}}
    /\ pc' = [pc EXCEPT ![h] = "done"]
    /\ UNCHANGED <<pipelines, storage, filters, event, doc, at, found, overlapped>>

Handle(h) ==
    \/ Store(h) \/ Parse(h) \/ Shift(h)
    \/ AddText(h) \/ AddFindVariable(h) \/ AddVariable(h)
    \/ DeleteRetrieve(h) \/ DeleteAssign(h) \/ DeleteFilter(h)
    \/ DecodeContext(h) \/ Finish(h) \/ Answer(h)

Next == \E h \in Handlers : Receive(h) \/ Handle(h)

Spec == Init /\ [][Next]_vars

\* A handler is a goroutine of the HTTP server, and a request to the sink returns.
FairSpec == Spec /\ \A h \in Handlers : WF_vars(Handle(h))

----------------------------------------------------------------------------
(* Properties. *)

\* What a transformer of the configuration c makes of the documents, the variables
\* and the result of a request when nothing else is handled.
Transform(c, s, t) ==
    LET o == c[t[1]][t[2]]
        document == s.doc[t[1]]
        Result(r) == [s EXCEPT !.doc[t[1]] = r]
    IN IF s.result = "error" THEN s
       ELSE IF t[1] = "decode" THEN
            IF s.doc.context \in Undecodable THEN [s EXCEPT !.result = "error"] ELSE s
       ELSE CASE o.op = "store" ->
                     IF document = Malformed THEN s
                     ELSE [s EXCEPT !.variables[o.key] = document[o.value]]
              [] o.op = "parse" -> Result(parse(document, o))
              [] o.op = "shift" -> Result(shift(document, o, retrieve(s.variables, o.value)))
              [] o.op = "add" ->
                     Result(MergeJSONWithMap(document, o.key,
                         IF o.var \in Variables /\ s.variables[o.var] # Unset
                         THEN composeValue(o, s.variables[o.var]) ELSE o.value))
              [] o.op = "delete" ->
                     Result(deleteParse(document, o,
                         [p \in Paths |-> retrieve(s.variables, o.value)]))

\* What the pipelines make of an event alone, after each position of the program.
AloneAfter(c, e) ==
    LET after[k \in 0..Len(applyTransformations[c])] ==
          IF k = 0 THEN [doc |-> [context |-> e.context, data |-> e.data],
                         variables |-> [v \in Variables |-> Unset],
                         result |-> "none"]
          ELSE Transform(c, after[k - 1], applyTransformations[c][k])
    IN after

Alone(e) == AloneAfter(pipelines, e)[Len(Program)]

\* Requests do not disturb each other: the answer to an event is what the pipelines
\* make of it alone, unless a request with the same eventUniqueID was in progress.
Isolated ==
    \A h \in Handlers :
        pc[h] \in {"answer", "done"} /\ event[h].json /\ ~overlapped[h] =>
            IF Alone(event[h]).result = "error" THEN result[h] = "error"
            ELSE result[h] # "error" /\ doc[h] = Alone(event[h]).doc

\* The storage keeps no variable of an event that is not being transformed, whatever
\* requests overlap and however applyTransformations returns.
NoVariableLeak ==
    \A u \in UniqueIDs :
        (\E v \in Variables : storage[u][v] # Unset) =>
            \E h \in Handlers : pc[h] \in Busy /\ ID(h) = u

\* adapter.go:249: "Failed transformation operations should not stop event flow".
AllAnswered == \A h \in Handlers : pc[h] \in Busy ~> result[h] # "none"

\* adapter_test.go:256: "actual value is not equal to the filter, ignore": a delete
\* operation compares with its own value, or with the variable of the event at hand
\* that the value names, at least when no other request is in progress.
FilterIsOwn ==
    \A h \in Handlers :
        pc[h] = "filter" /\ (\A x \in Handlers \ {h} : pc[x] \notin Busy) =>
            filters[Position(h)[1]][Position(h)[2]] = retrieve(storage[ID(h)], op(h).value)
=============================================================================
