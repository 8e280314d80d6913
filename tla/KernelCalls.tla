---------------------------- MODULE KernelCalls ----------------------------
(***************************************************************************)
(* What runs inside the kernel once it serves: calls on the bus              *)
(* (internal/kernel/bus), the handlers of embedded modules and of sandboxed  *)
(* guests (internal/kernel/wasmhost) they enter, and the dispatch of hook    *)
(* points to their subscribers (internal/kernel/hooks).                      *)
(*                                                                           *)
(* A frame is one invocation of a module's code.  A frame waits while a      *)
(* frame it started is its child.  A subscriber that outlives the limit of   *)
(* its hook point is abandoned: its frame goes on with no one waiting.       *)
(***************************************************************************)
EXTENDS ModuleRegistry

CONSTANTS
    Frames,         \* bound: invocations that exist at the same time
    NoFrame,
    MaxAbandoned,   \* bound: subscribers left behind at the same time
    MaxDepth,       \* MaxCallDepth
    MaxHandles,     \* MaxResultHandles
    Events,
    Delimited       \* the event names with an empty or delimited segment

VARIABLE frame

\* Who started a frame that has no parent; "gone" is the caller that stopped
\* waiting, "cut" a connection the shutdown gave up on.
Origins == {"http", "grpc", "job", "gone", "cut"}

ASSUME CallsAssumption ==
    /\ Frames \cap Origins = {} /\ NoFrame \notin Frames
    /\ Capabilities \cap DOMAIN Hooks = {} /\ {"job", "none"} \cap (Capabilities \cup DOMAIN Hooks) = {}
    /\ MaxDepth \in Nat /\ MaxHandles \in Nat
    /\ "self" \notin Modules
    /\ \A h \in DOMAIN Hooks : Hooks[h].policy \in {"fail_open", "fail_closed"}

\* One dispatch of a hook point by a frame.
\*   left        the subscribers still to be asked
\*   answers     what each subscriber asked so far really did, in order
\*   rejections  the vetoes the dispatcher collected; value the last transformation
\*   raced       a subscriber returned while the dispatcher was giving up on it
Dispatch(h, left) ==
    [hook |-> h, left |-> left, answers |-> <<>>, rejections |-> <<>>, value |-> NoModule,
     raced |-> FALSE, verdict |-> "open"]
NoDispatch == [Dispatch("none", <<>>) EXCEPT !.verdict = "none"]

\* ctx is what the Go context carries: whether there is a tenant, the chain of
\* guest capabilities, the invocation whose grants and results host calls use,
\* and the subscribers whose time limits apply.  sent and results are what host
\* calls left in the invocation's state: who published, and who called for each
\* open handle (the invocation itself, or the guest of another).
Frame(m, serves, parent, ctx) ==
    [module |-> m, serves |-> serves, parent |-> parent, ctx |-> ctx,
     dispatch |-> NoDispatch, results |-> <<>>, sent |-> NoModule]

Context(who) == [who |-> who, chain |-> <<>>, env |-> NoFrame, deps |-> NoModule, limits |-> {}]
Idle == Frame(NoModule, "none", "gone", Context("none"))

Live == {f \in Frames : frame[f].module # NoModule}
Free == Frames \ Live
NewFrame == CHOOSE f \in Free : TRUE

Child(f) == {g \in Frames : frame[g].parent = f}
Guest(f) == frame[f].module \in Guests

\* A limit that applies here has passed.
Expired(ctx) == \E g \in ctx.limits : frame[g].parent = "gone"

\* The code of this frame is running: nothing it started is still awaited.
Running(f) == f \in Live /\ Child(f) = {} /\ frame[f].dispatch.verdict # "open"

-----------------------------------------------------------------------------
(* Entering a module. *)

HasGrants(m) == Catalogue[m].consumes # <<>> \/ Catalogue[m].publishes # <<>>

\* Mutant: the environment of the outermost guest is kept (breaks HostCallsAreOwn).
InvokedOnce(m, ctx, f) == IF ctx.deps = NoModule /\ HasGrants(m) THEN [ctx EXCEPT !.env = f, !.deps = m] ELSE ctx

\* Plugin.Invoke: a guest with grants gets an environment of its own; one without
\* keeps the one that is in the context.
Invoked(m, ctx, f) ==
    IF HasGrants(m) THEN [ctx EXCEPT !.env = f, !.deps = m] ELSE ctx

\* A guest cannot be instantiated when its runtime is closed or the context has
\* ended, and its instance is closed when the context ends.
Instantiates(m, ctx) == m \in loaded /\ ~Expired(ctx)

\* Mutant: the depth of the chain is not bounded (breaks NoReentry).
GuestAcceptsDeep(m, c, ctx) == ctx.who = "tenant" /\ c \notin Range(ctx.chain) /\ Instantiates(m, ctx)

\* Plugin.Handler's checks, in order; any of them answers the caller with an error.
GuestAccepts(m, c, ctx) ==
    /\ ctx.who = "tenant"
    /\ c \notin Range(ctx.chain)
    /\ Len(ctx.chain) < MaxDepth
    /\ Instantiates(m, ctx)

\* Bus.Call that reaches a handler.  A capability nobody serves, and a guest that
\* does not accept, answer with an error: nothing changes.
BusCall(c, parent, ctx) ==
    LET m == reg.handlers[c]
        f == NewFrame
        entered == IF m \in Guests
                   THEN Invoked(m, [ctx EXCEPT !.chain = Append(@, c)], f)
                   ELSE ctx
    IN  /\ Free # {}
        /\ m # NoModule
        /\ m \in Guests => GuestAccepts(m, c, ctx)
        /\ frame' = [frame EXCEPT ![f] = Frame(m, c, parent, entered)]

\* An embedded handler passes on the context it was given.  Nothing checks what it
\* calls; `calls' is what its code does call.
EmbeddedCall(f, c) ==
    /\ Running(f) /\ ~Guest(f)
    /\ c \in Catalogue[frame[f].module].calls
    /\ BusCall(c, f, frame[f].ctx)

\* A guest in a position to make a host call.
HostCalling(f) == Running(f) /\ Guest(f) /\ Instantiates(frame[f].module, frame[f].ctx)

HostCaller(f) == IF frame[f].ctx.env = f THEN "self" ELSE frame[f].module

\* v2CapabilityCall: denied unless the environment's module was granted c.
v2CapabilityCall(f, c) ==
    /\ HostCalling(f)
    /\ frame[f].ctx.deps # NoModule
    /\ c \in Range(Catalogue[frame[f].ctx.deps].consumes)
    /\ BusCall(c, f, frame[f].ctx)

\* events.Subject: the tenant is the context's, and no segment may break out.
Subject(ctx, e) == ctx.who = "tenant" /\ e \notin Delimited

\* v2EventPublish, when the publisher takes it; the environment may be that of an
\* invocation that is over.
v2EventPublish(f, e) ==
    LET env == frame[f].ctx.env
    IN  /\ HostCalling(f)
        /\ frame[f].ctx.deps # NoModule
        /\ e \in Range(Catalogue[frame[f].ctx.deps].publishes)
        /\ Subject(frame[f].ctx, e)
        /\ env # NoFrame
        /\ frame[env].sent = NoModule      \* bound: one event for each invocation
        /\ frame' = [frame EXCEPT ![env].sent = HostCaller(f)]

v2ResultDrop(f) ==
    LET env == frame[f].ctx.env
    IN  /\ HostCalling(f)
        /\ env # NoFrame
        /\ \E h \in DOMAIN frame[env].results :
            frame' = [frame EXCEPT ![env].results = SubSeq(@, 1, h - 1) \o SubSeq(@, h + 1, Len(@))]

-----------------------------------------------------------------------------
(* Dispatching a hook point. *)

\* What a subscriber hands back: a result, and whether with an error.
Answer(m, res, err) == [module |-> m, res |-> res, err |-> err]
Results == {"nil", "veto", "value"}

\* The policy of the point decides whether an error ends the dispatch.
applyPolicy(h, err) == err /\ Hooks[h].policy = "fail_closed"

\* What the loops of Validate and Transform do with what invoke returned.
Validate(d, seen) ==
    IF seen.res = "veto" THEN [d EXCEPT !.rejections = Append(@, seen.module)] ELSE d

Transform(d, seen) ==
    IF ~seen.err /\ seen.res # "nil" THEN [d EXCEPT !.value = seen.module] ELSE d

\* Mutant: an error is passed over whatever the policy (breaks HookVerdict).
CountedOpen(d, truth, seen) ==
    LET heard == [d EXCEPT !.left = Tail(@), !.answers = Append(@, truth)]
    IN  IF Hooks[d.hook].kind = "validator" THEN Validate(heard, seen) ELSE Transform(heard, seen)

\* One turn of the loop of Notify, Validate or Transform: `seen' is what invoke
\* returned, `truth' what the subscriber did.
Counted(d, truth, seen) ==
    LET heard == [d EXCEPT !.left = Tail(@), !.answers = Append(@, truth)]
    IN  CASE applyPolicy(d.hook, seen.err) -> [heard EXCEPT !.verdict = "failed"]
          [] ~applyPolicy(d.hook, seen.err) /\ Hooks[d.hook].kind = "validator" -> Validate(heard, seen)
          [] ~applyPolicy(d.hook, seen.err) /\ Hooks[d.hook].kind = "transformer" -> Transform(heard, seen)
          [] OTHER -> heard

\* The end of the loop.
Concluded(d) ==
    IF d.left # <<>> \/ d.verdict # "open"
    THEN d
    ELSE [d EXCEPT !.verdict = IF d.rejections = <<>> THEN "ok" ELSE "rejected"]

After(d, truth, seen) == Concluded(Counted(d, truth, seen))

\* A handler fires a point: Notify, Validate or Transform by its kind.  A point
\* nobody offers is answered with an error.  Modules fire the points they offer.
Fire(f, h) ==
    /\ Running(f) /\ ~Guest(f)
    /\ frame[f].dispatch = NoDispatch   \* bound: one dispatch for each handler
    /\ Free # {}
    /\ h \in Range(Catalogue[frame[f].module].offers)
    /\ reg.points[h] # NoModule
    /\ frame' = [frame EXCEPT ![f].dispatch = Concluded(Dispatch(h, subscribersOf(h)))]

Asking(f) ==
    /\ f \in Live /\ Child(f) = {}
    /\ frame[f].dispatch.verdict = "open"

\* invoke starts the next subscriber on a goroutine of its own.  The chain of
\* guest capabilities is neither checked nor extended here.
Ask(f) ==
    LET d == frame[f].dispatch
        m == Head(d.left)
        g == NewFrame
        ctx == [frame[f].ctx EXCEPT !.limits = @ \cup {g}]
    IN  /\ Asking(f)
        /\ Free # {}
        /\ m \in Guests => ctx.who = "tenant" /\ Instantiates(m, frame[f].ctx)
        /\ frame' = [frame EXCEPT ![g] = Frame(m, d.hook, f, IF m \in Guests THEN Invoked(m, ctx, g) ELSE ctx)]

\* A guest that cannot be entered fails at once.
AskRefused(f) ==
    LET d == frame[f].dispatch
        failure == Answer(Head(d.left), "nil", TRUE)
    IN  /\ Asking(f)
        /\ Head(d.left) \in Guests
        /\ ~(frame[f].ctx.who = "tenant" /\ Instantiates(Head(d.left), frame[f].ctx))
        /\ frame' = [frame EXCEPT ![f].dispatch = After(d, failure, failure)]

\* The results the kind of a point knows.
Fitting(h) ==
    CASE Hooks[h].kind = "validator" -> {"nil", "veto"}
      [] Hooks[h].kind = "transformer" -> {"nil", "value"}
      [] OTHER -> {"nil"}

\* What the code of a subscriber may hand back.  hookHandler turns a guest's
\* status into the contract of the kind; an embedded subscriber may return both.
Answers(m, h) ==
    IF m \notin Guests
    THEN {Answer(m, res, err) : res \in Fitting(h), err \in BOOLEAN}
    ELSE {Answer(m, "nil", TRUE)} \cup
         {Answer(m, res, FALSE) : res \in {r \in Fitting(h) : m \in loaded}}

-----------------------------------------------------------------------------
(* Leaving a module. *)

\* The frame ends.  A frame that keeps its environment keeps its grants, but the
\* state behind it is no longer anyone's.
Ended(fs, f) ==
    [g \in Frames |->
        IF g = f THEN Idle
        ELSE IF fs[g].ctx.env = f THEN [fs[g] EXCEPT !.ctx.env = NoFrame] ELSE fs[g]]

\* Mutant: no limit on the handles of an invocation (breaks TypeOK).
storeAlways(env, m) == [frame EXCEPT ![env].results = Append(@, m)]

\* callState.store: a handle for the result, unless too many are open.
store(env, m) ==
    IF Len(frame[env].results) < MaxHandles
    THEN [frame EXCEPT ![env].results = Append(@, m)]
    ELSE frame

\* A handler of a capability returns.  For a guest that called it the result is
\* stored; without a handle to spare the call has run all the same.
Return(f, ok) ==
    LET p == frame[f].parent
        env == IF p \in Live /\ Guest(p) THEN frame[p].ctx.env ELSE NoFrame
        stored == IF ok /\ env # NoFrame THEN store(env, HostCaller(p)) ELSE frame
    IN  /\ Running(f)
        /\ frame[f].serves \in Capabilities
        /\ ok /\ Guest(f) => Instantiates(frame[f].module, frame[f].ctx)
        /\ frame' = Ended(stored, f)

\* A job of a module ends.
JobEnds(f) ==
    /\ Running(f) /\ frame[f].serves = "job"
    /\ frame' = Ended(frame, f)

\* A subscriber returns.
Respond(f, a) ==
    LET p == frame[f].parent
    IN  /\ Running(f) /\ frame[f].serves \in DOMAIN Hooks
        /\ a \in Answers(frame[f].module, frame[f].serves)
        /\ frame' = Ended(IF p \in Live
                          THEN [frame EXCEPT ![p].dispatch = After(@, a, a)]
                          ELSE frame, f)

\* The limit of the hook point passes: the subscriber is abandoned.
HookTimeout(f) ==
    \E g \in Child(f) :
        LET failure == Answer(frame[g].module, "nil", TRUE)
        IN  /\ frame[f].dispatch.verdict = "open"
            /\ Cardinality({h \in Live : frame[h].parent = "gone"}) < MaxAbandoned
            /\ frame' = [frame EXCEPT ![f].dispatch = After(@, failure, failure), ![g].parent = "gone"]

\* The limit passes while the subscriber returns: both goroutines assign the named
\* results of invoke, and the caller reads each as the one or the other left it.
RacedTimeout(f) ==
    \E g \in Child(f) :
        /\ frame[f].dispatch.verdict = "open"
        /\ Running(g)
        /\ \E a \in Answers(frame[g].module, frame[g].serves), res, err \in BOOLEAN :
            LET failure == Answer(frame[g].module, "nil", TRUE)
                seen == Answer(frame[g].module, IF res THEN a.res ELSE "nil", IF err THEN a.err ELSE TRUE)
            IN  frame' = Ended([frame EXCEPT ![f].dispatch =
                                    [After(@, failure, seen) EXCEPT !.raced = TRUE]], g)

-----------------------------------------------------------------------------
CallsInit == frame = [f \in Frames |-> Idle]

CallsNext ==
    \E f \in Live :
        \/ \E c \in Capabilities : EmbeddedCall(f, c) \/ v2CapabilityCall(f, c)
        \/ v2ResultDrop(f)
        \/ \E h \in DOMAIN Hooks : Fire(f, h)
        \/ Ask(f) \/ AskRefused(f)
        \/ \E ok \in BOOLEAN : Return(f, ok)
        \/ JobEnds(f)
        \/ \E res \in Results, err \in BOOLEAN : Respond(f, Answer(frame[f].module, res, err))
        \/ HookTimeout(f) \/ RacedTimeout(f)

-----------------------------------------------------------------------------
(* Properties. *)

\* f, and the frames that wait for it: no smaller set has the parents of its own.
Waiting(f) ==
    LET closed == {S \in SUBSET Frames :
                      f \in S /\ \A g \in S : frame[g].parent \in Frames => frame[g].parent \in S}
    IN  {g \in Frames : \A S \in closed : g \in S}

\* ... and what started them.
Above(f) == Waiting(f) \cup {frame[g].parent : g \in Waiting(f)}

\* Who vetoed, in order, and who handed back the last value.
Vetoes(answers) ==
    LET among[i \in 0..Len(answers)] ==
            IF i = 0 THEN <<>>
            ELSE IF answers[i].res = "veto" THEN Append(among[i - 1], answers[i].module) ELSE among[i - 1]
    IN  among[Len(answers)]

LastValue(answers) ==
    LET given == {i \in DOMAIN answers : answers[i].res = "value" /\ ~answers[i].err}
    IN  IF given = {} THEN NoModule ELSE answers[Max(given)].module

\* What Notify, Validate and Transform tell their caller is what the subscribers
\* did, in dispatch order and whatever abandoned ones do later: a success means
\* all were asked, none vetoed and, under fail_closed, none failed; a rejection
\* names exactly the vetoes; a failure means the last one asked failed under
\* fail_closed; and the value is the last one handed back without an error.
\* Except where an answer met its time limit (raced): invoke's two goroutines
\* then write the same results.
HookVerdict ==
    \A f \in Live :
        LET d == frame[f].dispatch
        IN  d.verdict \notin {"none", "open"} /\ ~d.raced =>
            /\ d.verdict # "failed" =>
                /\ [i \in DOMAIN d.answers |-> d.answers[i].module] = subscribersOf(d.hook)
                /\ \A i \in DOMAIN d.answers : d.answers[i].err => Hooks[d.hook].policy = "fail_open"
                /\ d.rejections = Vetoes(d.answers)
                /\ d.verdict = "ok" <=> Vetoes(d.answers) = <<>>
            /\ d.verdict = "failed" => Last(d.answers).err /\ Hooks[d.hook].policy = "fail_closed"
            /\ d.value = LastValue(d.answers)

\* A guest's capability never runs inside itself, and no more than MaxDepth run
\* inside one another, through whatever embedded modules and hook points the
\* thread passes on the way.
NoReentry ==
    \A f \in Live :
        LET serving == {g \in Waiting(f) : Guest(g) /\ frame[g].serves \in Capabilities}
        IN  /\ Cardinality(serving) <= MaxDepth
            /\ \A g, h \in serving : frame[g].serves = frame[h].serves => g = h

\* A guest with grants calls what those name and nothing else, and leaves no
\* handle and no event in an invocation that is not the one running, also when it
\* is nested inside another of the same guest, behind embedded modules and hooks.
HostCallsAreOwn ==
    \A f \in Live :
        /\ Guest(f) /\ HasGrants(frame[f].module) =>
            \A g \in Child(f) : frame[g].serves \in Range(Catalogue[frame[f].module].consumes)
        /\ \A m \in {frame[f].sent} \cup Range(frame[f].results) : m \in Guests => ~HasGrants(m)

\* "An ungranted guest that imports it gets a denial" (host.go), from an import
\* table "that denies everything" (hostcalls.go): a guest without grants calls no
\* capability, publishes no event and opens no handle.  It does, because Invoke
\* leaves the environment of the guest that called it in the context.
UngrantedIsDenied ==
    \A f \in Live :
        /\ Guest(f) /\ Child(f) # {} => HasGrants(frame[f].module)
        /\ ({frame[f].sent} \cup Range(frame[f].results)) \cap Guests = {}
=============================================================================
