---------------------------- MODULE KernelProofs ----------------------------
(***************************************************************************)
(* Proofs about the kernel, continued from KernelSteps: every action keeps   *)
(* FramesInv and Admitted; start and shutdown keep their order; so KernelInv *)
(* is inductive, and the properties of the calls follow from it.             *)
(***************************************************************************)
EXTENDS KernelSteps, FiniteSetTheorems

-----------------------------------------------------------------------------
(* What a handler answers, and where it goes.                                *)

\* A handler of a capability returns.
LEMMA ReturnSteps ==
    ASSUME FramesInv, reg' = reg, NEW f \in Live, NEW ok, Return(f, ok)
    PROVE  AllStepped
<1> DEFINE p == frame[f].parent
           v == frame[p].ctx.env
<1>1. Child(f) = {}
  BY Zenon DEF Return, Running
<1>2. CASE p \in Live /\ Guest(p) /\ ok /\ v # NoFrame
  <2>1. frame' = Ended(store(v, HostCaller(p)), f)
    BY <1>2, Zenon DEF Return
  <2>2. v \in Live /\ HostCaller(p) \in Callers /\ (HostCaller(p) \in Guests => ~HasGrants(HostCaller(p)))
    BY <1>2, EnvironmentIs, Zenon
  <2>3. PICK m : m = HostCaller(p)
    BY Zenon
  <2>4. PICK w : w = v
    BY Zenon
  <2>5. frame' = Ended(store(w, m), f) /\ w \in Live /\ m \in Callers /\ (m \in Guests => ~HasGrants(m))
    BY <2>1, <2>2, <2>3, <2>4, Zenon
  <2> QED
    BY <1>1, <2>5, StoredEnds, Zenon
<1>3. CASE ~(p \in Live /\ Guest(p) /\ ok /\ v # NoFrame)
  <2>1. frame' = Ended(frame, f)
    BY <1>3, Zenon DEF Return
  <2> QED
    BY <1>1, <2>1, AloneEnds, Zenon
<1> QED
  BY <1>2, <1>3, Zenon

\* What the code of a subscriber hands back fits the kind of the point.
LEMMA AnswersFit ==
    ASSUME NEW m \in Modules, NEW h \in DOMAIN Hooks, NEW a \in Answers(m, h)
    PROVE  /\ a \in AllAnswers /\ a.module = m
           /\ a.res = "veto" => Hooks[h].kind = "validator"
           /\ a.res = "value" => Hooks[h].kind = "transformer"
<1>1. "nil" \in Fitting(h) /\
      \A r \in Fitting(h) : r \in Results /\ (r = "veto" => Hooks[h].kind = "validator")
                         /\ (r = "value" => Hooks[h].kind = "transformer")
  <2>1. CASE Hooks[h].kind = "validator"
    BY <2>1 DEF Results, Fitting
  <2>2. CASE Hooks[h].kind = "transformer"
    BY <2>2 DEF Results, Fitting
  <2>3. CASE Hooks[h].kind \notin {"validator", "transformer"}
    BY <2>3 DEF Results, Fitting
  <2> QED
    BY <2>1, <2>2, <2>3, SMTT(60)
<1>3. \E res \in Fitting(h), err \in BOOLEAN : a = Answer(m, res, err)
  <2>1. CASE m \notin Guests
    BY <2>1 DEF Answers
  <2>2. CASE m \in Guests
    <3>1. Answers(m, h) = {Answer(m, "nil", TRUE)} \union
                          {Answer(m, res, FALSE) : res \in {r \in Fitting(h) : m \in loaded}}
      BY <2>2 DEF Answers
    <3>2. a = Answer(m, "nil", TRUE) \/ \E res \in Fitting(h) : a = Answer(m, res, FALSE)
      BY <3>1, Zenon
    <3>3. TRUE \in BOOLEAN /\ FALSE \in BOOLEAN
      OBVIOUS
    <3> QED
      BY <1>1, <3>2, <3>3, ZenonT(60)
  <2> QED
    BY <2>1, <2>2, Zenon
<1>4. PICK res \in Fitting(h), err \in BOOLEAN : a = Answer(m, res, err)
  BY <1>3, Zenon
<1>5. a \in AllAnswers /\ a.module = m /\ a.res = res
  <2>1. res \in Results
    BY <1>1, Zenon
  <2> QED
    BY <1>4, <2>1 DEF Answer, AllAnswers
<1> QED
  BY <1>1, <1>5, SMTT(60)

\* The frame a subscriber answers has its dispatch open.
LEMMA AnsweredIs ==
    ASSUME FramesInv, NEW f \in Live, frame[f].serves \in DOMAIN Hooks, frame[f].parent \in Live
    PROVE  LET p == frame[f].parent
               d == frame[p].dispatch
           IN  /\ p \in Frames /\ d.verdict = "open" /\ frame[f].serves = d.hook /\ frame[f].module = Head(d.left)
               /\ Child(p) \subseteq {f} /\ p # f
               /\ d \in Dispatches /\ Accounted(d) /\ ~Guest(p) /\ d.left # <<>> /\ frame[f].module \in Modules
<1> DEFINE p == frame[f].parent
           d == frame[p].dispatch
<1>1. p \in Frames /\ f \in Frames /\ f \in Child(p)
  BY Zenon DEF Live, Child
<1>2. Awaits(p)
  BY <1>1, Zenon DEF FramesInv, TreeInv
<1>3. frame[f].serves \notin Capabilities
  BY Apart, Zenon
<1>4. d.verdict = "open" /\ frame[f].serves = d.hook /\ frame[f].module = Head(d.left) /\ Child(p) \subseteq {f}
  BY <1>1, <1>2, <1>3, Zenon DEF Awaits
<1>5. d \in Dispatches /\ Accounted(d) /\ ~Guest(p) /\ d.left # <<>> /\ Head(d.left) \in Modules
  BY <1>4, OpenIs, ZenonT(60)
<1>6. p # f
  <2>1. PICK depth \in [Frames -> Nat] :
          \A x \in Frames : frame[x].parent \in Frames => depth[frame[x].parent] < depth[x]
    BY Zenon DEF FramesInv, TreeInv, Ranked
  <2>2. depth[p] < depth[f] /\ depth[p] \in Nat
    BY <1>1, <2>1, Zenon
  <2> QED
    BY <2>2
<1> QED
  BY <1>1, <1>4, <1>5, <1>6, Zenon

\* A subscriber ends and its answer is accounted for.
LEMMA AnswerEnds ==
    ASSUME FramesInv, reg' = reg, NEW x \in Live, Child(x) = {}, NEW p \in Live, p # x,
           ~Guest(p), Child(p) \subseteq {x}, NEW e \in Dispatches, Accounted(e),
           frame' = Ended([frame EXCEPT ![p].dispatch = e], x)
    PROVE  AllStepped
<1> DEFINE r == frame[p]
           n == [r EXCEPT !.dispatch = e]
<1>1. PICK fs : fs = [frame EXCEPT ![p] = n]
  BY Zenon
<1>2. frame' = Ended(fs, x)
  BY <1>1, Zenon
<1>3. r \in Invocations /\ p \in Frames /\ frame \in [Frames -> Invocations]
  BY Zenon DEF FramesInv, Live
<1> HIDE DEF r
<1>4. /\ n \in Invocations /\ n.module = r.module /\ n.serves = r.serves /\ n.parent = r.parent
      /\ n.ctx = r.ctx /\ n.dispatch = e /\ n.results = r.results /\ n.sent = r.sent
  BY <1>3, Zenon DEF Invocations
<1> HIDE DEF n
<1>5. fs \in [Frames -> Invocations] /\ fs[p] = n /\ \A g \in Frames \ {p} : fs[g] = frame[g]
  BY <1>1, <1>3, <1>4, Zenon
<1>6. Passes(fs, x, p)
  <2>1. Notes(p)
    BY Zenon DEF FramesInv, ContextInv
  <2>2. Accounted(fs[p].dispatch)
    BY <1>4, <1>5, Zenon
  <2> QED
    BY <1>4, <1>5, <2>1, <2>2, Zenon DEF Notes, Passes, r
<1>7. \A g \in Live \ {x} : Passes(fs, x, g)
  BY <1>5, <1>6, PassesOver, Zenon DEF Live
<1>8. \A g \in Frames \ Live : fs[g] = frame[g]
  BY <1>5, Zenon
<1> QED
  BY <1>2, <1>5, <1>7, <1>8, EndSteps, Zenon

\* A subscriber returns.
LEMMA RespondSteps ==
    ASSUME FramesInv, reg \in Registries, reg' = reg, NEW f \in Live, NEW a, Respond(f, a)
    PROVE  AllStepped
<1> DEFINE p == frame[f].parent
           d == frame[p].dispatch
<1>1. Child(f) = {} /\ frame[f].serves \in DOMAIN Hooks /\ a \in Answers(frame[f].module, frame[f].serves)
  BY Zenon DEF Respond, Running
<1>2. CASE p \notin Live
  <2>1. frame' = Ended(frame, f)
    BY <1>2, Zenon DEF Respond
  <2> QED
    BY <1>1, <2>1, AloneEnds, ZenonT(60)
<1>3. CASE p \in Live
  <2>1. /\ p \in Frames /\ d.verdict = "open" /\ frame[f].serves = d.hook /\ frame[f].module = Head(d.left)
        /\ Child(p) \subseteq {f} /\ p # f
        /\ d \in Dispatches /\ Accounted(d) /\ ~Guest(p) /\ d.left # <<>> /\ frame[f].module \in Modules
    BY <1>1, <1>3, AnsweredIs, ZenonT(60)
  <2>2. /\ a \in AllAnswers /\ a.module = Head(d.left)
        /\ a.res = "veto" => Hooks[d.hook].kind = "validator"
        /\ a.res = "value" => Hooks[d.hook].kind = "transformer"
    <3>1. PICK m, h : m = frame[f].module /\ h = frame[f].serves
      BY Zenon
    <3>2. m \in Modules /\ h \in DOMAIN Hooks /\ a \in Answers(m, h)
      BY <1>1, <2>1, <3>1, Zenon
    <3>3. /\ a \in AllAnswers /\ a.module = m
          /\ a.res = "veto" => Hooks[h].kind = "validator"
          /\ a.res = "value" => Hooks[h].kind = "transformer"
      BY <3>2, AnswersFit
    <3>4. Head(d.left) = m /\ d.hook = h
      BY <2>1, <3>1, Zenon
    <3> HIDE DEF d, p
    <3> QED
      BY <3>3, <3>4
  <2> DEFINE e == After(d, a, a)
  <2>3. frame' = Ended([frame EXCEPT ![p].dispatch = e], f)
    BY <1>3, Zenon DEF Respond
  <2>4. GoesOn(d, a, a, e) /\ e.raced = d.raced
    BY <2>1, <2>2, AfterIs, Zenon
  <2>5. PICK c : c = e
    BY Zenon
  <2>6. GoesOn(d, a, a, c) /\ (d.raced => c.raced)
    BY <2>4, <2>5, Zenon
  <2>7. c \in Dispatches /\ Accounted(c)
    BY <2>1, <2>2, <2>6, AccountKept, Zenon DEF GoesOn
  <2>8. PICK q : q = p
    BY Zenon
  <2>9. frame' = Ended([frame EXCEPT ![q].dispatch = c], f) /\ q \in Live /\ ~Guest(q) /\ Child(q) \subseteq {f} /\ q # f
    BY <1>3, <2>1, <2>3, <2>5, <2>8, Zenon
  <2> QED
    BY <1>1, <2>7, <2>9, AnswerEnds, Zenon
<1> QED
  BY <1>2, <1>3, Zenon

\* The time limit passes while the subscriber returns.
LEMMA RacedTimeoutSteps ==
    ASSUME FramesInv, reg \in Registries, reg' = reg, NEW f \in Live, RacedTimeout(f)
    PROVE  AllStepped
<1> DEFINE d == frame[f].dispatch
<1>1. PICK g \in Child(f) :
        /\ d.verdict = "open" /\ Running(g)
        /\ \E a \in Answers(frame[g].module, frame[g].serves), res, err \in BOOLEAN :
            LET failure == Answer(frame[g].module, "nil", TRUE)
                seen == Answer(frame[g].module, IF res THEN a.res ELSE "nil", IF err THEN a.err ELSE TRUE)
            IN  frame' = Ended([frame EXCEPT ![f].dispatch =
                                    [After(@, failure, seen) EXCEPT !.raced = TRUE]], g)
  BY Zenon DEF RacedTimeout
<1>2. g \in Live /\ g \in Frames /\ f \in Frames /\ frame[g].parent = f /\ Child(g) = {}
  BY <1>1, Zenon DEF Running, Live, Child
<1>3. Awaits(f)
  BY <1>2, Zenon DEF FramesInv, TreeInv
<1>4. d \in Dispatches /\ Accounted(d) /\ ~Guest(f) /\ d.hook \in DOMAIN Hooks /\ d.left # <<>> /\ Head(d.left) \in Modules
  BY <1>1, OpenIs, Zenon
<1>5. frame[g].serves \in DOMAIN Hooks /\ frame[g].parent \in Live
  BY <1>1, <1>2, <1>3, <1>4 DEF Awaits
<1>6. frame[g].module = Head(d.left) /\ frame[g].serves = d.hook /\ Child(f) \subseteq {g} /\ f # g
  BY <1>2, <1>5, AnsweredIs, Zenon
<1>7. PICK a \in Answers(frame[g].module, frame[g].serves), res, err \in BOOLEAN :
        LET failure == Answer(frame[g].module, "nil", TRUE)
            seen == Answer(frame[g].module, IF res THEN a.res ELSE "nil", IF err THEN a.err ELSE TRUE)
        IN  frame' = Ended([frame EXCEPT ![f].dispatch =
                                [After(@, failure, seen) EXCEPT !.raced = TRUE]], g)
  BY <1>1, Zenon
<1> DEFINE truth == Answer(frame[g].module, "nil", TRUE)
           seen == Answer(frame[g].module, IF res THEN a.res ELSE "nil", IF err THEN a.err ELSE TRUE)
           e == After(d, truth, seen)
           r == [e EXCEPT !.raced = TRUE]
<1>8. a \in AllAnswers
  <2>1. PICK m, h : m = frame[g].module /\ h = frame[g].serves
    BY Zenon
  <2>2. m \in Modules /\ h \in DOMAIN Hooks /\ a \in Answers(m, h)
    BY <1>4, <1>6, <1>7, <2>1, Zenon
  <2> QED
    BY <2>2, AnswersFit, Zenon
<1>9. /\ truth \in AllAnswers /\ truth.module = Head(d.left) /\ seen \in AllAnswers
  <2>1. a.res \in Results /\ a.err \in BOOLEAN
    BY <1>8 DEF AllAnswers
  <2>2. (IF res THEN a.res ELSE "nil") \in Results /\ (IF err THEN a.err ELSE TRUE) \in BOOLEAN
    <3>1. "nil" \in Results
      BY DEF Results
    <3> QED
      BY <2>1, <3>1, Zenon
  <2>3. frame[g].module \in Modules
    BY <1>4, <1>6
  <2> DEFINE u == IF res THEN a.res ELSE "nil"
             w == IF err THEN a.err ELSE TRUE
  <2> HIDE DEF u, w
  <2>4. u \in Results /\ w \in BOOLEAN /\ seen = Answer(frame[g].module, u, w)
    BY <2>2, Zenon DEF u, w
  <2> HIDE DEF seen
  <2>5. seen \in AllAnswers
    BY <2>3, <2>4 DEF Answer, AllAnswers
  <2>6. truth \in AllAnswers /\ truth.module = Head(d.left)
    BY <1>6, <2>3 DEF Answer, AllAnswers, Results
  <2> QED
    BY <2>5, <2>6
<1>10. frame' = Ended([frame EXCEPT ![f].dispatch = r], g)
  BY <1>7, Zenon
<1> HIDE DEF truth, seen
<1>11. GoesOn(d, truth, seen, e)
  BY <1>1, <1>4, <1>9, AfterIs, Zenon
<1>12. GoesOn(d, truth, seen, r) /\ r.raced
  BY <1>11, RacedIs
<1> HIDE DEF e
<1>13. PICK c : c = r
  BY Zenon
<1> HIDE DEF r
<1>14. GoesOn(d, truth, seen, c) /\ c.raced
  BY <1>12, <1>13, Zenon
<1>15. c \in Dispatches /\ Accounted(c)
  BY <1>1, <1>4, <1>9, <1>14, AccountKept, Zenon DEF GoesOn
<1>16. frame' = Ended([frame EXCEPT ![f].dispatch = c], g)
  BY <1>10, <1>13, Zenon
<1> QED
  BY <1>2, <1>4, <1>6, <1>15, <1>16, AnswerEnds, Zenon

\* The shutdown gives up on requests.
LEMMA CutSteps ==
    ASSUME FramesInv, reg' = reg,
           frame' = [f \in Frames |-> IF frame[f].parent = "http"
                                      THEN [frame[f] EXCEPT !.parent = "cut"] ELSE frame[f]]
    PROVE  AllStepped
<1>0. frame \in [Frames -> Invocations]
  BY Zenon DEF FramesInv
<1> DEFINE cut(r) == [r EXCEPT !.parent = "cut"]
<1>1. "cut" \in Frames \union Origins
  BY DEF Origins
<1>2. ASSUME NEW r \in Invocations
      PROVE  /\ cut(r) \in Invocations /\ cut(r).module = r.module /\ cut(r).serves = r.serves
             /\ cut(r).parent = "cut" /\ cut(r).ctx = r.ctx /\ cut(r).dispatch = r.dispatch
             /\ cut(r).results = r.results /\ cut(r).sent = r.sent
  BY <1>1, <1>2 DEF Invocations
<1>3. /\ DOMAIN frame' = Frames /\ frame' = [f \in Frames |-> frame'[f]]
      /\ \A f \in Frames : frame'[f] = IF frame[f].parent = "http" THEN cut(frame[f]) ELSE frame[f]
  BY Zenon
<1> HIDE DEF cut
<1>4. ASSUME NEW f \in Frames
      PROVE  /\ frame'[f] \in Invocations /\ frame'[f].module = frame[f].module /\ frame'[f].serves = frame[f].serves
             /\ IF frame[f].parent = "http" THEN frame'[f].parent = "cut" ELSE frame'[f].parent = frame[f].parent
             /\ frame'[f].ctx = frame[f].ctx /\ frame'[f].dispatch = frame[f].dispatch
             /\ frame'[f].results = frame[f].results /\ frame'[f].sent = frame[f].sent
  <2>1. frame[f] \in Invocations
    BY <1>0, Zenon
  <2> QED
    BY <1>2, <1>3, <2>1
<1>5. frame' \in [Frames -> Invocations]
  <2>1. \A f \in Frames : frame'[f] \in Invocations
    BY <1>4, Zenon
  <2> QED
    BY <1>3, <2>1
<1>6. Live' = Live
  <2>1. \A f \in Frames : frame'[f].module = frame[f].module
    BY <1>4, Zenon
  <2> QED
    BY <2>1 DEF Live
<1>7. ASSUME NEW f \in Frames, f \in Live PROVE Stepped(f)
  <2>1. Placed(f) /\ Entitled(f) /\ Notes(f) /\ f \in Live'
    BY <1>6, <1>7 DEF FramesInv, TreeInv, ContextInv
  <2>2. Kin(f) /\ Released(f) /\ Asked(f)
    BY <1>4, Zenon DEF Kin, Released, Asked
  <2>3. frame[f].ctx.env # NoFrame => frame[f].ctx.env \in Live
    BY <2>1, Zenon DEF Entitled
  <2>4. Environs(f)
    BY <1>4, <1>6, <2>3 DEF Environs
  <2>5. Notes(f)'
    BY <1>4, <2>1, Zenon DEF Notes
  <2>6. frame[f].parent \in Frames => frame[f].parent \in Live
    BY <2>1, Zenon DEF Placed
  <2>7. frame'[f].parent \in Frames => frame'[f].parent \in Live'
    BY <1>4, <1>6, <2>6, Apart
  <2> QED
    BY <1>7, <2>1, <2>2, <2>4, <2>5, <2>7, Zenon DEF Stepped
<1>8. ASSUME NEW f \in Frames, f \notin Live PROVE Stepped(f)
  <2>1. frame[f].parent = "gone"
    BY <1>8, Zenon DEF FramesInv, TreeInv, Placed
  <2>2. frame'[f].parent = "gone"
    BY <1>4, <2>1
  <2>3. f \notin Live'
    BY <1>6, <1>8
  <2> QED
    BY <2>2, <2>3, Zenon DEF Stepped
<1> QED
  BY <1>5, <1>7, <1>8, Zenon DEF AllStepped

\* Nothing happens to any frame.
LEMMA StillAll ==
    ASSUME FramesInv, frame' = frame
    PROVE  AllStepped
<1>1. frame' \in [Frames -> Invocations]
  BY Zenon DEF FramesInv
<1>2. Live \subseteq Live'
  BY DEF Live
<1>3. ASSUME NEW g \in Frames PROVE Stepped(g)
  <2>1. frame'[g] = frame[g]
    BY Zenon
  <2> QED
    BY <1>2, <2>1, StillSteps, Zenon
<1> QED
  BY <1>1, <1>3, Zenon DEF AllStepped

-----------------------------------------------------------------------------
(* Every step of the calls starts one frame inside another, or starts none.   *)

\* Whatever the code in a frame does, one frame starts inside another, or none starts.
LEMMA CallsMove ==
    ASSUME FramesInv, reg \in Registries, reg' = reg, CallsNext
    PROVE  AllStepped \/ \E p \in Live : Started(p)
<1>1. PICK f \in Live :
        \/ \E c \in Capabilities : EmbeddedCall(f, c) \/ v2CapabilityCall(f, c)
        \/ v2ResultDrop(f)
        \/ \E h \in DOMAIN Hooks : Fire(f, h)
        \/ Ask(f) \/ AskRefused(f)
        \/ \E ok \in BOOLEAN : Return(f, ok)
        \/ JobEnds(f)
        \/ \E res \in Results, err \in BOOLEAN : Respond(f, Answer(frame[f].module, res, err))
        \/ HookTimeout(f) \/ RacedTimeout(f)
  BY Zenon DEF CallsNext
<1>0. f \in Live \union {"http", "grpc"} /\ f \in Frames
  BY Zenon DEF Live
<1>2. ASSUME NEW c \in Capabilities, EmbeddedCall(f, c) PROVE Started(f)
  <2>1. /\ Child(f) = {} /\ frame[f].dispatch.verdict # "open" /\ ~Guest(f) /\ BusCall(c, f, frame[f].ctx)
    BY <1>2, Zenon DEF EmbeddedCall, Running
  <2>2. PICK ctx : ctx = frame[f].ctx
    BY Zenon
  <2>3. BusCall(c, f, ctx)
    BY <2>1, <2>2, Zenon
  <2> QED
    BY <1>0, <2>1, <2>2, <2>3, BusCallStarts, Zenon
<1>3. ASSUME NEW c \in Capabilities, v2CapabilityCall(f, c) PROVE Started(f)
  <2>1. /\ Child(f) = {} /\ frame[f].dispatch.verdict # "open" /\ BusCall(c, f, frame[f].ctx)
        /\ frame[f].ctx.deps # NoModule /\ c \in Range(Catalogue[frame[f].ctx.deps].consumes)
    BY <1>3, Zenon DEF v2CapabilityCall, HostCalling, Running
  <2>2. PICK ctx : ctx = frame[f].ctx
    BY Zenon
  <2>3. BusCall(c, f, ctx)
    BY <2>1, <2>2, Zenon
  <2> QED
    BY <1>0, <2>1, <2>2, <2>3, BusCallStarts, Zenon
<1>4. ASSUME v2ResultDrop(f) PROVE AllStepped
  BY <1>4, DropSteps, Zenon
<1>5. ASSUME NEW h \in DOMAIN Hooks, Fire(f, h) PROVE AllStepped
  BY <1>5, FireSteps, Zenon
<1>6. ASSUME Ask(f) PROVE Started(f)
  BY <1>6, AskStarts, Zenon
<1>7. ASSUME AskRefused(f) PROVE AllStepped
  BY <1>7, AskRefusedSteps, Zenon
<1>8. ASSUME NEW ok \in BOOLEAN, Return(f, ok) PROVE AllStepped
  BY <1>8, ReturnSteps, Zenon
<1>9. ASSUME JobEnds(f) PROVE AllStepped
  <2>1. Child(f) = {} /\ frame' = Ended(frame, f)
    BY <1>9, Zenon DEF JobEnds, Running
  <2> QED
    BY <2>1, AloneEnds, Zenon
<1>10. ASSUME NEW res \in Results, NEW err \in BOOLEAN, Respond(f, Answer(frame[f].module, res, err))
       PROVE  AllStepped
  <2>1. PICK a : a = Answer(frame[f].module, res, err)
    BY Zenon
  <2>2. Respond(f, a)
    BY <1>10, <2>1, Zenon
  <2> QED
    BY <2>2, RespondSteps, Zenon
<1>11. ASSUME HookTimeout(f) PROVE AllStepped
  BY <1>11, HookTimeoutSteps, Zenon
<1>12. ASSUME RacedTimeout(f) PROVE AllStepped
  BY <1>12, RacedTimeoutSteps, Zenon
<1> QED
  BY <1>1, <1>2, <1>3, <1>4, <1>5, <1>6, <1>7, <1>8, <1>9, <1>10, <1>11, <1>12, Zenon

\* A bridge calls.
LEMMA BridgeMoves ==
    ASSUME FramesInv, reg \in Registries, NEW origin \in {"http", "grpc"}, NEW c \in Capabilities, BridgeCall(origin, c)
    PROVE  Started(origin)
<1>1. BusCall(c, origin, Context("tenant"))
  BY Zenon DEF BridgeCall
<1>2. origin \notin Frames /\ origin \in Live \union {"http", "grpc"}
  BY Apart
<1>3. PICK ctx : ctx = Context("tenant")
  BY Zenon
<1>4. BusCall(c, origin, ctx)
  BY <1>1, <1>3, Zenon
<1> QED
  BY <1>2, <1>3, <1>4, BusCallStarts, Zenon

\* Who runs after a step that starts nothing ran before it, for the same caller or
\* for none.
LEMMA SteppedRuns ==
    ASSUME AllStepped, NEW f \in Live'
    PROVE  /\ f \in Live /\ f \in Frames /\ frame'[f].module = frame[f].module
           /\ frame'[f].parent \in {frame[f].parent, "gone", "cut"}
           /\ frame'[f].parent = frame[f].parent \/ frame'[f].parent = "gone" \/ frame[f].parent = "http"
<1>1. f \in Frames
  BY Zenon DEF Live
<1>2. f \in Live /\ Kin(f) /\ Released(f)
  BY <1>1, Zenon DEF AllStepped, Stepped
<1> QED
  BY <1>1, <1>2, Zenon DEF Kin, Released

\* Who runs after a step that starts a frame ran before it, or is that frame.
LEMMA StartedRuns ==
    ASSUME FramesInv, NEW n, NEW r, Starts(n, r), frame' = [frame EXCEPT ![n] = r], NEW f \in Live'
    PROVE  \/ f \in Live /\ frame'[f] = frame[f]
           \/ f = n /\ frame'[f] = r
<1>1. f \in Frames /\ frame'[f].module # NoModule
  BY Zenon DEF Live
<1>2. n \in Frames /\ frame \in [Frames -> Invocations]
  BY Zenon DEF Starts, Free, FramesInv
<1>3. CASE f = n
  BY <1>2, <1>3, Zenon
<1>4. CASE f # n
  <2>1. frame'[f] = frame[f]
    BY <1>1, <1>2, <1>4, Zenon
  <2> QED
    BY <1>1, <2>1, Zenon DEF Live
<1> QED
  BY <1>3, <1>4, Zenon

\* Who a frame may be, by the phase.
Admits(f) ==
    /\ frame[f].parent = "job" => frame[f].module \in up
    /\ phase \in {"drain", "stop", "http", "pool", "down"} => frame[f].parent # "grpc"
    /\ phase \in {"pool", "down"} => frame[f].parent # "http"

\* Admitted, frame by frame.
LEMMA AdmittedIs == Admitted <=> (phase = "wiring" => Live = {}) /\ \A f \in Live : Admits(f)
  BY Zenon DEF Admitted, Admits

\* A step that starts nothing, in the same phase.
LEMMA AdmitsSteps ==
    ASSUME Admitted, AllStepped, phase' = phase, up' = up
    PROVE  Admitted'
<1>1. ASSUME NEW f \in Live' PROVE Admits(f)'
  <2>1. /\ f \in Live /\ frame'[f].module = frame[f].module /\ frame'[f].parent \in {frame[f].parent, "gone", "cut"}
    BY SteppedRuns, Zenon
  <2>2. Admits(f)
    BY <2>1, AdmittedIs, Zenon
  <2> QED
    BY <2>1, <2>2 DEF Admits
<1>2. phase' = "wiring" => Live' = {}
  <2> SUFFICES ASSUME phase' = "wiring", NEW f \in Live' PROVE FALSE
    BY Zenon
  <2>1. f \in Live /\ Live = {}
    BY SteppedRuns, Zenon DEF Admitted
  <2> QED
    BY <2>1, Zenon
<1> QED
  BY <1>1, <1>2, Zenon DEF Admitted, Admits

\* A step that starts a frame.
LEMMA AdmitsStarts ==
    ASSUME FramesInv, Admitted, phase # "wiring", phase' = phase, up' = up,
           NEW n, NEW r, Starts(n, r), frame' = [frame EXCEPT ![n] = r],
           r.parent = "job" => r.module \in up,
           r.parent = "grpc" => phase = "serving",
           r.parent = "http" => phase \in {"serving", "grpc", "drain", "stop"}
    PROVE  Admitted'
<1>1. ASSUME NEW f \in Live' PROVE Admits(f)'
  <2>1. CASE f \in Live /\ frame'[f] = frame[f]
    <3>1. Admits(f)
      BY <2>1, AdmittedIs, Zenon
    <3> QED
      BY <2>1, <3>1 DEF Admits
  <2>2. CASE frame'[f] = r
    <3>1. phase = "serving" => phase \notin {"drain", "stop", "http", "pool", "down"}
      OBVIOUS
    <3>2. phase \in {"serving", "grpc", "drain", "stop"} => phase \notin {"pool", "down"}
      OBVIOUS
    <3> QED
      BY <2>2, <3>1, <3>2 DEF Admits
  <2> QED
    BY <2>1, <2>2, StartedRuns, Zenon
<1> QED
  BY <1>1, Zenon DEF Admitted, Admits

\* Every step keeps the invariant of the frames, and who may be running.
LEMMA FramesAndAdmitted ==
    ASSUME RegistryInv, FramesInv, PhaseInv, [Next]_vars
    PROVE  FramesInv' /\ Admitted'
<1>0. reg \in Registries /\ Admitted /\ phase \in Phases
  BY Zenon DEF RegistryInv, PhaseInv
<1>1. CASE Wire
  <2>1. phase = "wiring" /\ phase' = "wiring" /\ frame' = frame
    BY <1>1, Zenon DEF Wire
  <2>2. Live = {} /\ Live' = {}
    BY <1>0, <2>1, Zenon DEF Admitted, Live
  <2>3. TreeInv'
    <3>1. Ranked'
      BY <2>1 DEF FramesInv, TreeInv, Ranked
    <3>2. ASSUME NEW f \in Frames PROVE Placed(f)' /\ Awaits(f)'
      <4>1. Placed(f) /\ Awaits(f) /\ Child(f)' = Child(f) /\ Live' = Live
        BY <2>1, <2>2, Zenon DEF FramesInv, TreeInv, Child
      <4> QED
        BY <2>1, <4>1 DEF Placed, Awaits
    <3> QED
      BY <3>1, <3>2, Zenon DEF TreeInv
  <2>4. ContextInv' /\ DispatchInv'
    BY <2>2, Zenon DEF ContextInv, DispatchInv
  <2>5. Admitted'
    BY <2>2, Zenon DEF Admitted
  <2> QED
    BY <2>1, <2>3, <2>4, <2>5, Zenon DEF FramesInv
<1>2. CASE reg' = reg /\ frame' = frame /\ up' = up /\ phase' = phase
  <2>1. AllStepped
    BY <1>2, StillAll, Zenon
  <2> QED
    BY <1>0, <1>2, <2>1, FramesStep, AdmitsSteps, Zenon DEF AllStepped
<1>3. CASE Run
  <2>1. CallsNext /\ reg' = reg /\ up' = up /\ phase' = phase
    BY <1>3, Zenon DEF Run, regVars, appVars
  <2>2. CASE AllStepped
    BY <1>0, <2>1, <2>2, FramesStep, AdmitsSteps, Zenon DEF AllStepped
  <2>3. CASE \E p \in Live : Started(p)
    <3>0. PICK p \in Live : Started(p)
      BY <2>3, Zenon
    <3>1. PICK n, r : Starts(n, r) /\ r.parent = p /\ frame' = [frame EXCEPT ![n] = r]
      BY <3>0, Zenon DEF Started
    <3>2. phase # "wiring" /\ p \in Frames
      BY <1>0, <3>0, Zenon DEF Admitted, Live
    <3>3. r.parent # "job" /\ r.parent # "grpc" /\ r.parent # "http"
      BY <3>1, <3>2, Apart
    <3> QED
      BY <1>0, <2>1, <3>1, <3>2, <3>3, FramesStart, AdmitsStarts, Zenon
  <2> QED
    BY <1>0, <2>1, <2>2, <2>3, CallsMove, Zenon
<1>4. ASSUME NEW c \in Capabilities, Dispatched(c) PROVE FramesInv' /\ Admitted'
  <2>1. /\ phase \in {"serving", "grpc", "drain", "stop"} /\ BridgeCall("http", c)
        /\ reg' = reg /\ up' = up /\ phase' = phase
    BY <1>4, Zenon DEF Dispatched, Listening, BridgeCall, regVars, appVars
  <2>2. Started("http")
    BY <1>0, <2>1, BridgeMoves
  <2>3. PICK n, r : Starts(n, r) /\ r.parent = "http" /\ frame' = [frame EXCEPT ![n] = r]
    BY <2>2, Zenon DEF Started
  <2>4. phase # "wiring" /\ r.parent # "job" /\ r.parent # "grpc"
    BY <2>1, <2>3
  <2> QED
    BY <1>0, <2>1, <2>3, <2>4, FramesStart, AdmitsStarts, Zenon
<1>5. ASSUME NEW c \in Capabilities, GRPCCall(c) PROVE FramesInv' /\ Admitted'
  <2>1. /\ phase = "serving" /\ BridgeCall("grpc", c)
        /\ reg' = reg /\ up' = up /\ phase' = phase
    BY <1>5, Zenon DEF GRPCCall, BridgeCall, regVars, appVars
  <2>2. Started("grpc")
    BY <1>0, <2>1, BridgeMoves
  <2>3. PICK n, r : Starts(n, r) /\ r.parent = "grpc" /\ frame' = [frame EXCEPT ![n] = r]
    BY <2>2, Zenon DEF Started
  <2>4. phase # "wiring" /\ r.parent # "job" /\ r.parent # "http"
    BY <2>1, <2>3
  <2> QED
    BY <1>0, <2>1, <2>3, <2>4, FramesStart, AdmitsStarts, Zenon
<1>6. ASSUME NEW m \in Modules, Job(m) PROVE FramesInv' /\ Admitted'
  <2>1. /\ Free # {} /\ m \in up /\ m \in Modules \ Guests
        /\ frame' = [frame EXCEPT ![NewFrame] = Frame(m, "job", "job", Context("none"))]
        /\ reg' = reg /\ up' = up /\ phase' = phase
    BY <1>6, Zenon DEF Job, regVars, appVars
  <2>2. PICK n, r : Starts(n, r) /\ r.parent = "job" /\ r.module = m /\ frame' = [frame EXCEPT ![n] = r]
    BY <2>1, JobStarts, Zenon
  <2>3. phase # "wiring"
    <3>1. ASSUME phase = "wiring" PROVE up = {}
      <4>1. up = First(0)
        BY <3>1, Zenon DEF PhaseInv, Standing, StandsAt
      <4> QED
        BY <4>1 DEF First
    <3> QED
      BY <2>1, <3>1, Zenon
  <2>4. r.parent # "grpc" /\ r.parent # "http"
    BY <2>2
  <2> QED
    BY <1>0, <2>1, <2>2, <2>3, <2>4, FramesStart, AdmitsStarts, Zenon
<1>7. ASSUME NEW f \in Live, NEW e \in Events, Publish(f, e) PROVE FramesInv' /\ Admitted'
  <2>1. v2EventPublish(f, e) /\ reg' = reg /\ up' = up /\ phase' = phase
    BY <1>7, Zenon DEF Publish, regVars, appVars
  <2>2. AllStepped
    BY <2>1, PublishSteps, Zenon
  <2> QED
    BY <1>0, <2>1, <2>2, FramesStep, AdmitsSteps, Zenon DEF AllStepped
<1>8. ASSUME reg' = reg, frame' = frame, phase' # "wiring",
             \A f \in Live : frame[f].parent = "job" /\ frame[f].module \in up => frame[f].module \in up',
             phase' \in {"drain", "stop", "http", "pool", "down"} => \A f \in Live : frame[f].parent # "grpc",
             phase' \in {"pool", "down"} => \A f \in Live : frame[f].parent # "http"
      PROVE  FramesInv' /\ Admitted'
  <2>1. FramesInv'
    BY <1>8, StillAll, FramesStep, Zenon DEF AllStepped
  <2>2. Live' = Live /\ \A f \in Live : Admits(f)
    BY <1>0, <1>8, AdmittedIs, Zenon DEF Live
  <2>3. \A f \in Live : Admits(f)'
    BY <1>8, <2>2, Zenon DEF Admits
  <2>4. \A f \in Live' : Admits(f)'
    BY <2>2, <2>3
  <2> QED
    BY <1>8, <2>1, <2>4, Zenon DEF Admitted, Admits
<1>9. CASE Start \/ StartModule \/ FinishStart \/ Shutdown
  <2>1. /\ reg' = reg /\ frame' = frame /\ up \subseteq up'
        /\ phase' \in {"starting", "failed", "auditing", "rollback", "serving", "grpc"}
    BY <1>9 DEF Start, StartModule, FinishStart, Shutdown, regVars
  <2>2. phase' # "wiring" /\ phase' \notin {"drain", "stop", "http", "pool", "down"} /\ phase' \notin {"pool", "down"}
    BY <2>1
  <2> QED
    BY <1>8, <2>1, <2>2, Zenon
<1>10. CASE GracefulStop \/ CloseEvents \/ ClosePool
  <2>1. /\ reg' = reg /\ frame' = frame /\ up' = up /\ phase' \in {"drain", "stop", "down"}
        /\ \/ \A f \in Live : frame[f].parent # "grpc"
           \/ phase \in {"drain", "pool"}
        /\ phase' = "down" => phase = "pool"
    BY <1>10 DEF GracefulStop, CloseEvents, ClosePool, regVars
  <2>2. \A f \in Live : Admits(f)
    BY <1>0, AdmittedIs, Zenon
  <2>3. /\ \A f \in Live : frame[f].parent # "grpc"
        /\ phase' \in {"pool", "down"} => \A f \in Live : frame[f].parent # "http"
    BY <2>1, <2>2 DEF Admits
  <2>4. phase' # "wiring"
    BY <2>1
  <2> QED
    BY <1>8, <2>1, <2>3, <2>4, Zenon
<1>11. CASE StopModule
  <2>1. reg' = reg /\ frame' = frame /\ phase \in {"rollback", "stop"}
    BY <1>11, Zenon DEF StopModule
  <2>2. \A f \in Live : Admits(f)
    BY <1>0, AdmittedIs, Zenon
  <2>3. /\ phase' \in {"rollback", "failed", "stop", "http"}
        /\ phase' \in {"stop", "http"} => phase = "stop"
    BY <1>11 DEF StopModule
  <2>4. phase' \in {"drain", "stop", "http", "pool", "down"} => \A f \in Live : frame[f].parent # "grpc"
    BY <2>2, <2>3 DEF Admits
  <2>5. phase' # "wiring" /\ phase' \notin {"pool", "down"}
    BY <2>3
  <2>6. ASSUME NEW f \in Live, frame[f].parent = "job", frame[f].module \in up PROVE frame[f].module \in up'
    <3>1. CASE left = <<>>
      BY <1>11, <2>6, <3>1, Zenon DEF StopModule
    <3>2. CASE left # <<>>
      <4>1. up' = up \ {Last(left)} /\ frame[f].module # Last(left)
        BY <1>11, <2>6, <3>2, Zenon DEF StopModule
      <4> QED
        BY <2>6, <4>1
    <3> QED
      BY <3>1, <3>2, Zenon
  <2> QED
    BY <1>8, <2>1, <2>4, <2>5, <2>6, Zenon
<1>12. CASE ShutdownWithContext
  <2>1. reg' = reg /\ up' = up /\ phase = "http" /\ phase' = "pool"
    BY <1>12, Zenon DEF ShutdownWithContext, regVars
  <2>2. AllStepped /\ \A f \in Live' : frame'[f].parent # "http"
    <3>1. CASE (\A f \in Live : frame[f].parent # "http") /\ frame' = frame
      <4>1. AllStepped
        BY <3>1, StillAll, Zenon
      <4>2. \A f \in Live' : f \in Live
        BY <4>1, SteppedRuns, Zenon
      <4> QED
        BY <3>1, <4>1, <4>2, Zenon
    <3>2. CASE frame' = [f \in Frames |-> IF frame[f].parent = "http"
                                          THEN [frame[f] EXCEPT !.parent = "cut"] ELSE frame[f]]
      <4>1. AllStepped
        BY <2>1, <3>2, CutSteps, Zenon
      <4>2. ASSUME NEW f \in Live', frame'[f].parent = "http" PROVE FALSE
        <5>1. f \in Frames /\ frame[f] \in Invocations
          BY Zenon DEF Live, FramesInv
        <5>2. CASE frame[f].parent = "http"
          <6> DEFINE r == frame[f]
          <6>1. frame'[f] = [r EXCEPT !.parent = "cut"] /\ r \in Invocations
            BY <3>2, <5>1, <5>2, Zenon
          <6> HIDE DEF r
          <6>2. [r EXCEPT !.parent = "cut"].parent = "cut"
            BY <6>1 DEF Invocations
          <6> QED
            BY <4>2, <6>1, <6>2
        <5>3. CASE frame[f].parent # "http"
          BY <3>2, <4>2, <5>1, <5>3, Zenon
        <5> QED
          BY <5>2, <5>3, Zenon
      <4> QED
        BY <4>1, <4>2, Zenon
    <3> QED
      BY <1>12, <3>1, <3>2, Zenon DEF ShutdownWithContext
  <2>3. FramesInv'
    BY <2>1, <2>2, FramesStep, Zenon DEF AllStepped
  <2>4. ASSUME NEW f \in Live' PROVE Admits(f)'
    <3>1. /\ f \in Live /\ frame'[f].module = frame[f].module /\ frame'[f].parent \in {frame[f].parent, "gone", "cut"}
      BY <2>2, SteppedRuns, Zenon
    <3>2. Admits(f)
      BY <1>0, <3>1, AdmittedIs, Zenon
    <3> QED
      BY <2>1, <2>2, <3>1, <3>2 DEF Admits
  <2>5. phase' # "wiring"
    BY <2>1
  <2> QED
    BY <2>3, <2>4, <2>5, Zenon DEF Admitted, Admits
<1>13. \/ Wire \/ Run \/ (\E c \in Capabilities : Dispatched(c) \/ GRPCCall(c)) \/ (\E m \in Modules : Job(m))
       \/ (\E f \in Live, e \in Events : Publish(f, e))
       \/ Start \/ StartModule \/ FinishStart \/ Shutdown \/ GracefulStop \/ CloseEvents \/ ClosePool
       \/ StopModule \/ ShutdownWithContext
       \/ (reg' = reg /\ frame' = frame /\ up' = up /\ phase' = phase)
  BY Zenon DEF Next, vars, regVars, DrainEnds, ConsumerEnds, Exited
<1> QED
  BY <1>1, <1>2, <1>3, <1>4, <1>5, <1>6, <1>7, <1>9, <1>10, <1>11, <1>12, <1>13, Zenon

-----------------------------------------------------------------------------
(* Start and shutdown.                                                       *)

\* The first modules of the order.
LEMMA FirstIs ==
    ASSUME reg \in Registries, RegistryAgrees, NEW n \in 0..Len(reg.order)
    PROVE  /\ Cardinality(First(n)) = n /\ First(n) \subseteq reg.modules
           /\ n < Len(reg.order) => n + 1 \in 0..Len(reg.order) /\ First(n + 1) = First(n) \union {reg.order[n + 1]}
           /\ n > 0 => n - 1 \in 0..Len(reg.order) /\ First(n - 1) = First(n) \ {reg.order[n]}
           /\ First(0) = {} /\ First(Len(reg.order)) = reg.modules
           /\ Range(SubSeq(reg.order, 1, n)) = First(n)
<1> DEFINE s == reg.order
<1>1. s \in Seq(Modules) /\ reg.modules = Range(s) /\ \A i, j \in DOMAIN s : s[i] = s[j] => i = j
  <2>1. reg.order \in Seq(Modules)
    BY DEF Registries
  <2> QED
    BY <2>1, Zenon DEF RegistryAgrees, IsInjective
<1>2. First(n) = {s[i] : i \in 1..n} /\ First(n + 1) = {s[i] : i \in 1..(n + 1)} /\ First(n - 1) = {s[i] : i \in 1..(n - 1)}
      /\ First(0) = {s[i] : i \in 1..0} /\ First(Len(s)) = {s[i] : i \in 1..Len(s)}
  BY Zenon DEF First
<1> HIDE DEF s
<1>3. Len(s) \in Nat /\ DOMAIN s = 1..Len(s) /\ n \in 0..Len(s)
  BY <1>1, SeqIs, SMTT(60) DEF s
<1>4. First(0) = {} /\ First(Len(s)) = reg.modules
  BY <1>1, <1>2, <1>3, SMTT(60) DEF Range
<1>5. First(n) \subseteq reg.modules
  BY <1>1, <1>2, <1>3 DEF Range
<1>6. n < Len(s) => n + 1 \in 0..Len(s) /\ First(n + 1) = First(n) \union {s[n + 1]}
  BY <1>2, <1>3
<1>7. n > 0 => n - 1 \in 0..Len(s) /\ First(n - 1) = First(n) \ {s[n]}
  <2> SUFFICES ASSUME n > 0 PROVE n - 1 \in 0..Len(s) /\ First(n - 1) = First(n) \ {s[n]}
    OBVIOUS
  <2>1. n - 1 \in 0..Len(s) /\ n \in DOMAIN s /\ n \notin 1..(n - 1)
    BY <1>3
  <2>2. \A i \in 1..n : i \in DOMAIN s /\ (i = n \/ i \in 1..(n - 1))
    BY <1>3
  <2>3. \A i \in 1..(n - 1) : i \in 1..n /\ i # n
    BY <1>3
  <2>4. \A i \in 1..(n - 1) : s[i] # s[n]
    BY <1>1, <2>1, <2>2, <2>3, Zenon
  <2> QED
    BY <1>2, <2>1, <2>2, <2>3, <2>4, SMTT(60)
<1>8. Cardinality(First(n)) = n
  <2> DEFINE f == [i \in 1..n |-> s[i]]
  <2>1. n \in Nat /\ \A i \in 1..n : i \in DOMAIN s
    BY <1>3
  <2>2. f \in Bijection(1..n, First(n))
    <3>1. f \in [1..n -> First(n)] /\ \A y \in First(n) : \E i \in 1..n : f[i] = y
      BY <1>2, Zenon
    <3>2. \A i, j \in 1..n : f[i] = f[j] => i = j
      BY <1>1, <2>1, Zenon
    <3> QED
      BY <3>1, <3>2 DEF Bijection, Injection, Surjection, IsInjective
  <2>3. ExistsBijection(1..n, First(n))
    BY <2>2, Zenon DEF ExistsBijection
  <2> QED
    BY <2>1, <2>3, FS_CountingElements
<1>9. Range(SubSeq(s, 1, n)) = First(n)
  <2> DEFINE t == SubSeq(s, 1, n)
  <2>1. Len(t) = n /\ DOMAIN t = 1..n /\ \A i \in 1..n : t[i] = s[i]
    BY <1>1, <1>3, SMTT(60)
  <2> HIDE DEF t
  <2>2. Range(t) = First(n)
    BY <1>2, <2>1 DEF Range
  <2> QED
    BY <2>2, Zenon DEF t
<1> QED
  BY <1>4, <1>5, <1>6, <1>7, <1>8, <1>9, Zenon DEF s

\* What is left of the order when the last module of it is stopped.
LEMMA LeftIs ==
    ASSUME reg \in Registries, NEW k \in 0..Len(reg.order)
    PROVE  LET t == SubSeq(reg.order, 1, k)
           IN  /\ t = <<>> <=> k = 0
               /\ k > 0 => Last(t) = reg.order[k] /\ Front(t) = SubSeq(reg.order, 1, k - 1)
<1> DEFINE s == reg.order
           t == SubSeq(s, 1, k)
<1>1. s \in Seq(Modules)
  BY DEF Registries
<1>2. Len(s) \in Nat /\ k \in 0..Len(s)
  BY <1>1, SeqIs
<1> HIDE DEF s
<1>3. t \in Seq(Modules) /\ Len(t) = k /\ \A i \in 1..k : t[i] = s[i]
  BY <1>1, <1>2
<1> HIDE DEF t
<1>4. t = <<>> <=> k = 0
  BY <1>2, <1>3
<1>5. ASSUME k > 0 PROVE Last(t) = s[k] /\ Front(t) = SubSeq(s, 1, k - 1)
  <2>1. Last(t) = s[k]
    BY <1>2, <1>3, <1>5, SMTT(60) DEF Last
  <2> DEFINE a == SubSeq(t, 1, k - 1)
             b == SubSeq(s, 1, k - 1)
  <2>2. a \in Seq(Modules) /\ Len(a) = k - 1 /\ \A i \in 1..(k - 1) : a[i] = t[i]
    BY <1>2, <1>3, <1>5
  <2>3. b \in Seq(Modules) /\ Len(b) = k - 1 /\ \A i \in 1..(k - 1) : b[i] = s[i]
    BY <1>1, <1>2, <1>5
  <2>4. Front(t) = a
    BY <1>3, Zenon DEF Front
  <2> HIDE DEF a, b
  <2>5. \A i \in 1..Len(a) : a[i] = b[i]
    BY <1>2, <1>3, <2>2, <2>3, SMTT(60)
  <2>6. a = b
    BY <2>2, <2>3, <2>5, SeqSame, SMTT(60)
  <2> QED
    BY <2>1, <2>4, <2>6, Zenon DEF b
<1> QED
  BY <1>4, <1>5, Zenon DEF s, t

\* The phases, one by one.
LEMMA PhaseIs ==
    ASSUME NEW n, NEW k, up' = First(n)', left' = SubSeq(reg'.order, 1, k),
           \/ phase' = "starting"
           \/ phase' = "wiring" /\ n = 0 /\ k = 0
           \/ phase' \in {"auditing", "serving"} /\ n = Len(reg'.order)
           \/ phase' \in {"failed", "grpc", "drain"} /\ n \in {0, Len(reg'.order)}
           \/ phase' = "rollback" /\ k = n
           \/ phase' = "stop" /\ n \in {0, k} /\ loaded' \subseteq First(k)'
           \/ phase' \in {"http", "pool", "down"} /\ n = 0 /\ loaded' = {}
    PROVE  StandsAt(n, k)'
<1> DEFINE p == phase'
<1>1. p = "starting" => p \notin {"wiring", "auditing", "serving", "failed", "grpc", "drain", "rollback", "stop", "http", "pool", "down"}
  OBVIOUS
<1> QED
  BY DEF StandsAt

\* Start, rollback and shutdown keep to the order of registration.
LEMMA StandingKeeps ==
    ASSUME RegistryInv, RegistryInv', PhaseInv, [Next]_vars
    PROVE  Standing'
<1>1. PICK n, k \in 0..Len(reg.order) : StandsAt(n, k)
  BY Zenon DEF PhaseInv, Standing
<1>0. reg \in Registries /\ RegistryAgrees /\ Len(reg.order) \in Nat
  <2>1. reg.order \in Seq(Modules)
    BY DEF RegistryInv, Registries
  <2> QED
    BY <2>1, SeqIs DEF RegistryInv
<1>2. /\ Cardinality(First(n)) = n /\ First(n) \subseteq reg.modules
      /\ n < Len(reg.order) => n + 1 \in 0..Len(reg.order) /\ First(n + 1) = First(n) \union {reg.order[n + 1]}
      /\ First(0) = {} /\ First(Len(reg.order)) = reg.modules
  BY <1>0, FirstIs, Zenon
<1>3. /\ k > 0 => k - 1 \in 0..Len(reg.order) /\ First(k - 1) = First(k) \ {reg.order[k]}
      /\ left = <<>> <=> k = 0
      /\ k > 0 => Last(left) = reg.order[k] /\ Front(left) = SubSeq(reg.order, 1, k - 1)
  <2>1. left = SubSeq(reg.order, 1, k)
    BY <1>1, Zenon DEF StandsAt
  <2> QED
    BY <1>0, <2>1, FirstIs, LeftIs, Zenon
<1>4. up = First(n) /\ left = SubSeq(reg.order, 1, k)
  BY <1>1, Zenon DEF StandsAt
<1>5. ASSUME reg' = reg PROVE Len(reg'.order) = Len(reg.order) /\ \A i \in 0..Len(reg.order) : First(i)' = First(i)
  BY <1>5, Zenon DEF First
<1>6. CASE Wire
  <2>1. phase = "wiring" /\ phase' = "wiring" /\ up' = up /\ left' = left
    BY <1>6, Zenon DEF Wire
  <2>2. n = 0 /\ k = 0
    BY <1>1, <2>1, Zenon DEF StandsAt
  <2>3. reg'.order \in Seq(Modules)
    BY DEF RegistryInv, Registries
  <2>4. First(0)' = {} /\ SubSeq(reg'.order, 1, 0) = <<>> /\ left = <<>> /\ 0 \in 0..Len(reg'.order)
    BY <1>3, <2>2, <2>3, SMTT(60) DEF First
  <2>5. up' = First(0)' /\ left' = SubSeq(reg'.order, 1, 0)
    BY <1>2, <1>4, <2>1, <2>2, <2>4, Zenon
  <2>6. StandsAt(0, 0)'
    BY <2>1, <2>5, PhaseIs
  <2> QED
    BY <2>4, <2>6, Zenon DEF Standing
<1>7. CASE Start
  <2>1. reg' = reg /\ phase = "wiring" /\ phase' \in {"starting", "failed"} /\ up' = up /\ left' = left
    BY <1>7 DEF Start, regVars
  <2>2. n = 0 /\ k = 0
    BY <1>1, <2>1, Zenon DEF StandsAt
  <2>3. StandsAt(0, 0)'
    BY <1>4, <1>5, <2>1, <2>2, PhaseIs, SMTT(60)
  <2> QED
    BY <1>0, <1>5, <2>1, <2>2, <2>3, SMTT(60) DEF Standing
<1>8. CASE StartModule
  <2>0. reg' = reg /\ phase = "starting"
    BY <1>8, Zenon DEF StartModule, regVars
  <2>1. CASE Cardinality(up) = Len(reg.order)
    <3>1. phase' = "auditing" /\ up' = up /\ left' = left
      BY <1>8, <2>1, Zenon DEF StartModule
    <3>2. n = Len(reg'.order)
      BY <1>2, <1>4, <1>5, <2>0, <2>1, SMTT(60)
    <3>3. StandsAt(n, k)'
      BY <1>4, <1>5, <2>0, <3>1, <3>2, PhaseIs, SMTT(60)
    <3> QED
      BY <1>5, <2>0, <3>3, Zenon DEF Standing
  <2>2. CASE Cardinality(up) # Len(reg.order) /\ up' = up \union {NextToStart} /\ phase' = phase /\ left' = left
    <3>1. n < Len(reg.order) /\ NextToStart = reg.order[n + 1]
      BY <1>0, <1>2, <1>4, <2>2, SMTT(60) DEF NextToStart
    <3>2. n + 1 \in 0..Len(reg.order) /\ up' = First(n + 1)
      BY <1>2, <1>4, <2>2, <3>1, SMTT(60)
    <3>3. StandsAt(n + 1, k)'
      BY <1>4, <1>5, <2>0, <2>2, <3>2, PhaseIs, SMTT(60)
    <3> QED
      BY <1>5, <2>0, <3>2, <3>3, Zenon DEF Standing
  <2>3. CASE phase' = "rollback" /\ left' = SubSeq(reg.order, 1, Cardinality(up)) /\ up' = up
    <3>1. left' = SubSeq(reg.order, 1, n)
      BY <1>2, <1>4, <2>3, Zenon
    <3>2. StandsAt(n, n)'
      BY <1>4, <1>5, <2>0, <2>3, <3>1, PhaseIs, Zenon
    <3> QED
      BY <1>5, <2>0, <3>2, Zenon DEF Standing
  <2> QED
    BY <1>8, <2>1, <2>2, <2>3, Zenon DEF StartModule
<1>9. CASE FinishStart
  <2>1. reg' = reg /\ phase = "auditing" /\ phase' \in {"serving", "failed"} /\ up' = up /\ left' = left
    BY <1>9 DEF FinishStart, regVars
  <2>2. n = Len(reg.order)
    BY <1>1, <2>1 DEF StandsAt
  <2>3. StandsAt(n, k)'
    BY <1>4, <1>5, <2>1, <2>2, PhaseIs, SMTT(60)
  <2> QED
    BY <1>5, <2>1, <2>3, Zenon DEF Standing
<1>10. CASE Shutdown \/ GracefulStop
  <2>1. /\ reg' = reg /\ phase \in {"serving", "failed", "grpc"} /\ phase' \in {"grpc", "drain"} /\ up' = up /\ left' = left
    BY <1>10 DEF Shutdown, GracefulStop, regVars
  <2>2. n \in {0, Len(reg.order)}
    BY <1>1, <2>1 DEF StandsAt
  <2>3. StandsAt(n, k)'
    BY <1>4, <1>5, <2>1, <2>2, PhaseIs, SMTT(60)
  <2> QED
    BY <1>5, <2>1, <2>3, Zenon DEF Standing
<1>11. CASE CloseEvents
  <2>1. /\ reg' = reg /\ loaded' = loaded /\ phase = "drain" /\ phase' = "stop" /\ up' = up /\ left' = reg.order
    BY <1>11, Zenon DEF CloseEvents, regVars
  <2> DEFINE N == Len(reg.order)
  <2>2. n \in {0, N} /\ N \in 0..N
    BY <1>0, <1>1, <2>1, SMTT(60) DEF StandsAt
  <2>3. loaded \subseteq First(N)
    BY <1>0, <1>2 DEF RegistryAgrees
  <2>4. SubSeq(reg.order, 1, N) = reg.order
    <3>1. PICK s \in Seq(Modules) : s = reg.order
      BY Zenon DEF RegistryInv, Registries
    <3>2. SubSeq(s, 1, Len(s)) = s
      OBVIOUS
    <3> QED
      BY <3>1, <3>2
  <2>5. StandsAt(n, N)'
    BY <1>4, <1>5, <2>1, <2>2, <2>3, <2>4, PhaseIs, SMTT(60)
  <2> QED
    BY <1>5, <2>1, <2>2, <2>5, Zenon DEF Standing
<1>12. CASE StopModule
  <2>0. reg' = reg /\ phase \in {"rollback", "stop"}
    BY <1>12, Zenon DEF StopModule
  <2>1. CASE left = <<>>
    <3>1. /\ phase' = IF phase = "rollback" THEN "failed" ELSE "http"
          /\ up' = up /\ left' = left /\ loaded' = loaded
      BY <1>12, <2>1, Zenon DEF StopModule
    <3>2. k = 0 /\ n = 0 /\ (phase = "stop" => loaded \subseteq First(0))
      BY <1>1, <1>3, <2>0, <2>1, SMTT(60) DEF StandsAt
    <3>3. StandsAt(n, k)'
      BY <1>2, <1>4, <1>5, <2>0, <3>1, <3>2, PhaseIs, SMTT(60)
    <3> QED
      BY <1>5, <2>0, <3>3, Zenon DEF Standing
  <2>2. CASE left # <<>>
    <3>1. /\ up' = up \ {Last(left)} /\ loaded' = loaded \ {Last(left)} /\ left' = Front(left) /\ phase' = phase
      BY <1>12, <2>2, Zenon DEF StopModule
    <3>2. k > 0
      BY <1>3, <2>2, SMTT(60)
    <3>3. /\ k - 1 \in 0..Len(reg.order) /\ First(k - 1) = First(k) \ {reg.order[k]}
          /\ Last(left) = reg.order[k] /\ left' = SubSeq(reg.order, 1, k - 1)
      BY <1>3, <3>1, <3>2
    <3>4. CASE n = k
      <4>1. up' = First(k - 1)
        BY <1>4, <3>1, <3>3, <3>4, SMTT(60)
      <4>2. phase = "stop" => loaded' \subseteq First(k - 1)
        BY <1>1, <3>1, <3>3, SMTT(60) DEF StandsAt
      <4>3. StandsAt(k - 1, k - 1)'
        BY <1>5, <2>0, <3>1, <3>3, <4>1, <4>2, PhaseIs, SMTT(60)
      <4> QED
        BY <1>5, <2>0, <3>3, <4>3, Zenon DEF Standing
    <3>5. CASE n = 0 /\ phase = "stop"
      <4>1. up' = First(0) /\ 0 \in 0..Len(reg.order)
        BY <1>0, <1>2, <1>4, <3>1, <3>5, SMTT(60)
      <4>2. loaded' \subseteq First(k - 1)
        BY <1>1, <3>1, <3>3, <3>5, SMTT(60) DEF StandsAt
      <4>3. StandsAt(0, k - 1)'
        BY <1>5, <2>0, <3>1, <3>3, <3>5, <4>1, <4>2, PhaseIs, SMTT(60)
      <4> QED
        BY <1>5, <2>0, <3>3, <4>1, <4>3, Zenon DEF Standing
    <3> QED
      BY <1>1, <2>0, <3>4, <3>5, SMTT(60) DEF StandsAt
  <2> QED
    BY <2>1, <2>2, Zenon
<1>13. CASE ShutdownWithContext \/ ClosePool
  <2>1. /\ reg' = reg /\ loaded' = loaded /\ phase \in {"http", "pool"} /\ phase' \in {"pool", "down"}
        /\ up' = up /\ left' = left
    BY <1>13 DEF ShutdownWithContext, ClosePool, regVars
  <2>2. n = 0 /\ loaded = {}
    BY <1>1, <2>1, SMTT(60) DEF StandsAt
  <2>3. StandsAt(n, k)'
    BY <1>4, <1>5, <2>1, <2>2, PhaseIs, SMTT(60)
  <2> QED
    BY <1>5, <2>1, <2>3, Zenon DEF Standing
<1>14. CASE UNCHANGED <<reg, up, left, loaded, phase>>
  <2>1. StandsAt(n, k)' /\ n \in 0..Len(reg'.order) /\ k \in 0..Len(reg'.order)
    BY <1>1, <1>14, Zenon DEF StandsAt, First
  <2> QED
    BY <2>1, Zenon DEF Standing
<1>15. \/ Wire \/ Start \/ StartModule \/ FinishStart \/ Shutdown \/ GracefulStop \/ CloseEvents \/ StopModule
       \/ ShutdownWithContext \/ ClosePool
       \/ UNCHANGED <<reg, up, left, loaded, phase>>
  BY Zenon DEF Next, vars, regVars, appVars, Dispatched, GRPCCall, BridgeCall, Job, Publish, Run, DrainEnds,
               ConsumerEnds, Exited
<1> QED
  BY <1>6, <1>7, <1>8, <1>9, <1>10, <1>11, <1>12, <1>13, <1>14, <1>15, Zenon

\* No table is dropped.
LEMMA TablesGrow ==
    ASSUME [Next]_vars
    PROVE  tables \subseteq tables'
<1>1. CASE ~Wire
  <2>1. tables' = tables
    BY <1>1, OthersKeepRegistry, Zenon
  <2> QED
    BY <2>1, Zenon
<1>2. CASE Wire
  <2>1. PICK m : RefuseModule(m) \/ RefuseSchema(m) \/ RegisterModule(m)
    BY <1>2, Zenon DEF Wire
  <2>2. tables' = tables \/ \E done : Migrate(Catalogue[m], done)
    BY <2>1, Zenon DEF RefuseModule, RefuseSchema, RegisterModule, regVars, MigrationsFail, MigrationsRun
  <2> QED
    BY <2>2, Zenon DEF Migrate
<1> QED
  BY <1>1, <1>2, Zenon

\* Every step keeps where start and shutdown stand.
LEMMA PhaseKeeps ==
    ASSUME KernelInv, RegistryInv', Admitted', [Next]_vars
    PROVE  PhaseInv'
<1>0. RegistryInv /\ PhaseInv
  BY ZenonT(60) DEF KernelInv
<1>1. phase' \in Phases
  <2>1. phase \in Phases
    BY <1>0, Zenon DEF PhaseInv
  <2> QED
    BY <2>1, Zenon DEF Next, vars, Wire, Start, StartModule, FinishStart, Dispatched, GRPCCall, BridgeCall, Job, Publish, Run,
                Shutdown, GracefulStop, DrainEnds, CloseEvents, ConsumerEnds, StopModule, ShutdownWithContext,
                ClosePool, Exited, appVars, Phases
<1>2. todo' \in Seq(Modules)
  BY <1>0, RegistryKeeps, Zenon DEF PhaseInv
<1>3. findings' \subseteq tables'
  <2>1. findings \subseteq tables /\ tables \subseteq tables'
    BY <1>0, TablesGrow, Zenon DEF PhaseInv
  <2>2. findings' = findings \/ FinishStart
    BY Zenon DEF Next, vars, Wire, Start, StartModule, Dispatched, GRPCCall, BridgeCall, Job, Publish, Run,
                Shutdown, GracefulStop, DrainEnds, CloseEvents, ConsumerEnds, StopModule, ShutdownWithContext,
                ClosePool, Exited, appVars
  <2>3. FinishStart => findings' \subseteq tables
    BY Zenon DEF FinishStart, AuditScopedModels
  <2> QED
    BY <2>1, <2>2, <2>3, Zenon
<1> DEFINE Ends(p, d, c) ==
        /\ d \in {"on", "cancelled", "off"} /\ c \in {"on", "draining", "off"}
        /\ p \in {"stop", "http", "pool", "down"} => d = "off" /\ c # "on"
<1>4. Ends(phase, drain, consumer)
  BY <1>0, Zenon DEF PhaseInv
<1>5. Ends(phase', drain', consumer')
  <2>1. CASE UNCHANGED <<phase, drain, consumer>>
    BY <1>4, <2>1
  <2>2. CASE Start \/ StartModule
    <3>1. phase' \in {"starting", "failed", "auditing", "rollback"} /\ drain' = drain /\ consumer' = consumer
      BY <2>2 DEF Start, StartModule
    <3> QED
      BY <1>4, <3>1
  <2>3. CASE FinishStart \/ Shutdown \/ GracefulStop
    <3>1. /\ phase' \in {"serving", "failed", "grpc", "drain"} /\ drain' \in {drain, "on", "off", "cancelled"}
          /\ consumer' \in {consumer, "on", "off"}
      BY <2>3 DEF FinishStart, Shutdown, GracefulStop
    <3> QED
      BY <1>4, <3>1, SMTT(60)
  <2>4. CASE DrainEnds \/ ConsumerEnds \/ CloseEvents
    BY <1>4, <2>4, SMTT(60) DEF DrainEnds, ConsumerEnds, CloseEvents
  <2>5. CASE StopModule \/ ShutdownWithContext \/ ClosePool
    <3>1. /\ drain' = drain /\ consumer' = consumer
          /\ phase' \in {"stop", "http", "pool", "down"} => phase \in {"stop", "http", "pool", "down"}
      BY <2>5 DEF StopModule, ShutdownWithContext, ClosePool
    <3> QED
      BY <1>4, <3>1
  <2>6. \/ UNCHANGED <<phase, drain, consumer>>
        \/ Start \/ StartModule \/ FinishStart \/ Shutdown \/ GracefulStop \/ DrainEnds \/ ConsumerEnds \/ CloseEvents
        \/ StopModule \/ ShutdownWithContext \/ ClosePool
    BY Zenon DEF Next, vars, Wire, Dispatched, GRPCCall, BridgeCall, Job, Publish, Run, Exited, appVars
  <2> HIDE DEF Ends
  <2> QED
    BY <2>1, <2>2, <2>3, <2>4, <2>5, <2>6, Zenon
<1>6. Standing'
  BY <1>0, StandingKeeps, Zenon
<1> QED
  BY <1>1, <1>2, <1>3, <1>5, <1>6, Zenon DEF PhaseInv

\* The invariant holds before anything is wired.
LEMMA KernelInit == Init => KernelInv
<1> SUFFICES ASSUME Init PROVE KernelInv
  OBVIOUS
<1>1. RegistryInv
  BY RegistryInit, Zenon DEF Init
<1>2. frame = [f \in Frames |-> Idle]
  BY Zenon DEF Init, CallsInit
<1>3. frame \in [Frames -> Invocations] /\ \A f \in Frames : frame[f].module = NoModule /\ frame[f].parent = "gone"
  BY <1>2, IdleIs, Zenon
<1>4. Live = {} /\ \A f \in Frames : Child(f) = {}
  BY <1>3, Apart, Zenon DEF Live, Child
<1>5. FramesInv
  <2>1. Ranked
    <3> DEFINE depth == [f \in Frames |-> 0]
    <3>1. depth \in [Frames -> Nat]
      OBVIOUS
    <3>2. \A f \in Frames : ~(frame[f].parent \in Frames)
      BY <1>3, Apart, Zenon
    <3> QED
      BY <3>1, <3>2, Zenon DEF Ranked
  <2>2. \A f \in Frames : Placed(f) /\ Awaits(f)
    BY <1>3, <1>4, Apart, Zenon DEF Placed, Awaits
  <2> QED
    BY <1>3, <1>4, <2>1, <2>2, Zenon DEF FramesInv, TreeInv, ContextInv, DispatchInv
<1>6. PhaseInv
  <2>1. /\ phase = "wiring" /\ up = {} /\ left = <<>> /\ drain = "off" /\ consumer = "off" /\ findings = {}
        /\ todo \in Seq(Modules) /\ reg = New
    BY WiringAssumption, Zenon DEF Init, RegInit
  <2>2. reg.order \in Seq(Modules)
    BY <1>1 DEF RegistryInv, Registries
  <2>3. First(0) = {} /\ SubSeq(reg.order, 1, 0) = <<>> /\ 0 \in 0..Len(reg.order)
    BY <2>2 DEF First
  <2>4. StandsAt(0, 0)
    BY <2>1, <2>3 DEF StandsAt
  <2>5. Standing
    BY <2>3, <2>4, Zenon DEF Standing
  <2>6. Admitted
    BY <1>4, Zenon DEF Admitted
  <2>7. phase \in Phases /\ findings \subseteq tables /\ drain \in {"on", "cancelled", "off"} /\ consumer \in {"on", "draining", "off"}
        /\ (phase \in {"stop", "http", "pool", "down"} => drain = "off" /\ consumer # "on")
    BY <2>1 DEF Phases
  <2> QED
    BY <2>1, <2>5, <2>6, <2>7, Zenon DEF PhaseInv
<1> QED
  BY <1>1, <1>5, <1>6, Zenon DEF KernelInv

\* The invariant of the kernel is inductive: registry, frames, contexts, dispatches
\* and phases keep it together, whatever the interleaving (KernelInv).
THEOREM KernelHolds == Spec => []KernelInv
<1>1. Init => KernelInv
  BY KernelInit
<1>2. KernelInv /\ [Next]_vars => KernelInv'
  <2> SUFFICES ASSUME KernelInv, [Next]_vars PROVE KernelInv'
    OBVIOUS
  <2>1. RegistryInv'
    BY RegistryKeeps, Zenon DEF KernelInv, PhaseInv
  <2>2. FramesInv' /\ Admitted'
    BY FramesAndAdmitted, Zenon DEF KernelInv
  <2>3. PhaseInv'
    BY <2>1, <2>2, PhaseKeeps, Zenon
  <2> QED
    BY <2>1, <2>2, <2>3, Zenon DEF KernelInv
<1> QED
  BY <1>1, <1>2, PTL DEF Spec

-----------------------------------------------------------------------------
(* What follows from the invariant.                                          *)

\* The invariant bounds the code's tables.
LEMMA TypeFollows == KernelInv => TypeOK
<1> SUFFICES ASSUME KernelInv PROVE TypeOK
  OBVIOUS
<1>1. RegistryInv /\ FramesInv /\ PhaseInv /\ reg \in Registries /\ RegistryAgrees
  BY Zenon DEF KernelInv, RegistryInv
<1>2. PICK n, k \in 0..Len(reg.order) : StandsAt(n, k)
  BY <1>1, Zenon DEF PhaseInv, Standing
<1>3. up \subseteq reg.modules /\ Range(left) \subseteq reg.modules
  <2>1. up = First(n) /\ left = SubSeq(reg.order, 1, k)
    BY <1>2, Zenon DEF StandsAt
  <2>2. First(n) \subseteq reg.modules /\ First(k) \subseteq reg.modules /\ Range(SubSeq(reg.order, 1, k)) = First(k)
    BY <1>1, FirstIs
  <2> QED
    BY <2>1, <2>2
<1>4. ASSUME NEW f \in Live PROVE Len(frame[f].results) <= MaxHandles /\ frame[f].parent \in Origins \union Live
  <2>1. f \in Frames /\ Notes(f) /\ Placed(f)
    BY <1>1, Zenon DEF FramesInv, TreeInv, ContextInv, Live
  <2>2. frame[f].parent \in Frames \union Origins
    BY <1>1, <2>1, InvocationFields, Zenon DEF FramesInv
  <2> QED
    BY <2>1, <2>2, Zenon DEF Notes, Placed
<1> QED
  BY <1>1, <1>3, <1>4, Zenon DEF TypeOK, PhaseInv, RegistryInv

\* What a dispatch tells its caller.
Told(d) ==
    /\ d.verdict # "failed" =>
        /\ [i \in DOMAIN d.answers |-> d.answers[i].module] = subscribersOf(d.hook)
        /\ \A i \in DOMAIN d.answers : d.answers[i].err => Hooks[d.hook].policy = "fail_open"
        /\ d.rejections = Vetoes(d.answers)
        /\ d.verdict = "ok" <=> Vetoes(d.answers) = <<>>
    /\ d.verdict = "failed" => Last(d.answers).err /\ Hooks[d.hook].policy = "fail_closed"
    /\ d.value = LastValue(d.answers)

\* A dispatch that is over and accounted for tells its caller what happened.
LEMMA VerdictFollows ==
    ASSUME NEW d \in Dispatches, Accounted(d), d.verdict \notin {"none", "open"}, ~d.raced, reg \in Registries
    PROVE  Told(d)
<1> DEFINE asked == [i \in DOMAIN d.answers |-> d.answers[i].module]
<1>1. /\ d.answers \in Seq(AllAnswers) /\ d.left \in Seq(Modules)
      /\ d.verdict \in {"none", "open", "ok", "rejected", "failed"}
  BY DispatchFields, Zenon
<1>2. ASSUME d.verdict # "failed"
      PROVE  /\ asked = subscribersOf(d.hook)
             /\ d.verdict = "ok" <=> Vetoes(d.answers) = <<>>
  <2>1. d.left = <<>> /\ d.rejections = Vetoes(d.answers)
    BY <1>2, Zenon DEF Accounted
  <2>2. asked \o d.left = subscribersOf(d.hook)
    BY Zenon DEF Accounted
  <2>3. asked \in Seq(Modules)
    <3>1. Len(d.answers) \in Nat /\ DOMAIN d.answers = 1..Len(d.answers) /\ \A i \in 1..Len(d.answers) : d.answers[i].module \in Modules
      BY <1>1, AnswersAre, Zenon
    <3> DEFINE n == Len(d.answers)
    <3>2. asked \in [1..n -> Modules] /\ n \in Nat
      BY <3>1
    <3> HIDE DEF asked, n
    <3> QED
      BY <3>2
  <2> HIDE DEF asked
  <2>4. asked \o <<>> = asked
    BY <2>3
  <2>5. asked = subscribersOf(d.hook)
    BY <2>1, <2>2, <2>4, SMTT(60)
  <2>6. d.verdict = "ok" \/ d.verdict = "rejected"
    BY <1>1, <1>2
  <2>7. (d.verdict = "ok" => d.rejections = <<>>) /\ (d.verdict = "rejected" => d.rejections # <<>>)
    BY Zenon DEF Accounted
  <2> QED
    BY <2>1, <2>5, <2>6, <2>7, SMTT(60)
<1> HIDE DEF asked
<1>3. /\ d.verdict # "failed" =>
            /\ \A i \in DOMAIN d.answers : d.answers[i].err => Hooks[d.hook].policy = "fail_open"
            /\ d.rejections = Vetoes(d.answers)
      /\ d.verdict = "failed" => Last(d.answers).err /\ Hooks[d.hook].policy = "fail_closed"
      /\ d.value = LastValue(d.answers)
  BY Zenon DEF Accounted
<1> QED
  BY <1>2, <1>3, Zenon DEF asked, Told

\* So it does for every dispatch of every frame.
LEMMA VerdictsFollow == KernelInv => HookVerdict
<1> SUFFICES ASSUME KernelInv, NEW f \in Live,
                    frame[f].dispatch.verdict \notin {"none", "open"} /\ ~frame[f].dispatch.raced
             PROVE  Told(frame[f].dispatch)
  BY Zenon DEF HookVerdict, Told
<1>1. PICK d : d = frame[f].dispatch
  BY Zenon
<1>2. f \in Frames /\ frame[f] \in Invocations /\ reg \in Registries
  BY Zenon DEF KernelInv, FramesInv, RegistryInv, Live
<1>3. d \in Dispatches
  BY <1>1, <1>2, InvocationFields, ZenonT(60)
<1>4. d # NoDispatch
  BY <1>1, NoDispatchIs
<1>5. Accounted(d)
  BY <1>1, <1>4, Zenon DEF KernelInv, FramesInv, DispatchInv
<1>6. d.verdict \notin {"none", "open"} /\ ~d.raced
  BY <1>1, Zenon
<1> QED
  BY <1>1, <1>2, <1>3, <1>5, <1>6, VerdictFollows, Zenon

-----------------------------------------------------------------------------
(* Those who wait.                                                           *)

Closed(f, S) == f \in S /\ \A g \in S : frame[g].parent \in Frames => frame[g].parent \in S

\* Waiting is the smallest closed set.
LEMMA WaitingIs ==
    ASSUME NEW f \in Frames
    PROVE  /\ Waiting(f) \subseteq Frames /\ Closed(f, Waiting(f))
           /\ \A S \in SUBSET Frames : Closed(f, S) => Waiting(f) \subseteq S
<1>1. \A g : g \in Waiting(f) <=> g \in Frames /\ \A S \in SUBSET Frames : Closed(f, S) => g \in S
  <2>1. Waiting(f) = {g \in Frames : \A S \in {T \in SUBSET Frames : Closed(f, T)} : g \in S}
    BY Zenon DEF Waiting, Closed
  <2> QED
    BY <2>1, Zenon
<1>2. f \in Waiting(f)
  BY <1>1, Zenon DEF Closed
<1>3. ASSUME NEW g \in Waiting(f), frame[g].parent \in Frames PROVE frame[g].parent \in Waiting(f)
  <2>1. ASSUME NEW S \in SUBSET Frames, Closed(f, S) PROVE frame[g].parent \in S
    <3>1. g \in S
      BY <1>1, <2>1, Zenon
    <3> QED
      BY <1>3, <2>1, <3>1, Zenon DEF Closed
  <2> QED
    BY <1>1, <1>3, <2>1, Zenon
<1> QED
  BY <1>1, <1>2, <1>3, Zenon DEF Closed

\* Those who wait for f are f and those who wait for its caller.
LEMMA WaitingUp ==
    ASSUME NEW f \in Frames
    PROVE  /\ frame[f].parent \notin Frames => Waiting(f) = {f}
           /\ frame[f].parent \in Frames =>
                /\ Waiting(f) \subseteq {f} \union Waiting(frame[f].parent)
                /\ Waiting(frame[f].parent) \subseteq Waiting(f)
<1>1. ASSUME frame[f].parent \notin Frames PROVE Waiting(f) = {f}
  <2>1. Closed(f, {f}) /\ {f} \in SUBSET Frames
    BY <1>1, Zenon DEF Closed
  <2>2. Waiting(f) \subseteq {f} /\ f \in Waiting(f)
    BY <2>1, WaitingIs, Zenon DEF Closed
  <2> QED
    BY <2>2, Zenon
<1>2. ASSUME NEW p \in Frames, frame[f].parent = p
      PROVE  Waiting(f) \subseteq {f} \union Waiting(p) /\ Waiting(p) \subseteq Waiting(f)
  <2>1. Waiting(p) \subseteq Frames /\ Closed(p, Waiting(p)) /\ Waiting(f) \subseteq Frames /\ Closed(f, Waiting(f))
    BY WaitingIs, Zenon
  <2> DEFINE S == {f} \union Waiting(p)
  <2>2. S \in SUBSET Frames
    BY <2>1, Zenon
  <2>3. Closed(f, S)
    BY <1>2, <2>1 DEF Closed
  <2>4. Waiting(f) \subseteq S
    BY <2>2, <2>3, WaitingIs, Zenon
  <2>5. Closed(p, Waiting(f))
    BY <1>2, <2>1, Zenon DEF Closed
  <2>6. Waiting(p) \subseteq Waiting(f)
    BY <2>1, <2>5, WaitingIs, Zenon
  <2> QED
    BY <2>4, <2>6, Zenon
<1> QED
  BY <1>1, <1>2, Zenon

\* Some frame of any set is not called from inside it.
LEMMA Topmost ==
    ASSUME Ranked, NEW B, B \subseteq Frames, B # {}
    PROVE  \E f \in B : frame[f].parent \notin B
<1>1. PICK depth \in [Frames -> Nat] :
        \A f \in Frames : frame[f].parent \in Frames => depth[frame[f].parent] < depth[f]
  BY Zenon DEF Ranked
<1> DEFINE T == {depth[f] : f \in B}
<1>2. T \subseteq Nat /\ T # {}
  BY Zenon
<1>3. PICK x \in T : \A y \in T : ~(y < x)
  BY <1>2, Least, Zenon
<1>4. PICK f \in B : depth[f] = x
  BY Zenon
<1>5. ASSUME frame[f].parent \in B PROVE FALSE
  <2>1. depth[frame[f].parent] < depth[f] /\ depth[frame[f].parent] \in T
    BY <1>1, <1>5, Zenon
  <2> QED
    BY <1>3, <1>4, <2>1, Zenon
<1> QED
  BY <1>5, Zenon

\* Those who wait for a frame in use are in use.
LEMMA WaitingLive ==
    ASSUME FramesInv, NEW f \in Live
    PROVE  f \in Frames /\ Waiting(f) \subseteq Live
<1>1. f \in Frames /\ Live \in SUBSET Frames
  BY Zenon DEF Live
<1>2. Closed(f, Live)
  BY <1>1, Zenon DEF Closed, FramesInv, TreeInv, Placed
<1> QED
  BY <1>1, <1>2, WaitingIs, Zenon

-----------------------------------------------------------------------------
(* NoReentry.                                                                *)

Serving(f) == {g \in Waiting(f) : Guest(g) /\ frame[g].serves \in Capabilities}

\* What guests serve above a frame is in its chain, each once.
Listed(f) ==
    /\ \A g \in Serving(f) : frame[g].serves \in Range(frame[f].ctx.chain)
    /\ \A g, h \in Serving(f) : frame[g].serves = frame[h].serves => g = h

\* From the outermost frame inwards.
LEMMA ListedAll ==
    ASSUME FramesInv
    PROVE  \A f \in Live : Listed(f)
<1> DEFINE B == {f \in Live : ~Listed(f)}
<1>1. SUFFICES B = {}
  BY Zenon
<1>2. SUFFICES ASSUME B # {} PROVE FALSE
  OBVIOUS
<1>3. PICK f \in B : frame[f].parent \notin B
  <2>1. Ranked /\ B \subseteq Frames
    BY Zenon DEF FramesInv, TreeInv, Live
  <2> QED
    BY <1>2, <2>1, Topmost, Zenon
<1>4. f \in Live /\ ~Listed(f) /\ f \in Frames /\ Chained(f) /\ Placed(f)
  BY Zenon DEF FramesInv, TreeInv, ContextInv, Live
<1> HIDE DEF B
<1>5. CASE frame[f].parent \notin Frames
  <2>1. Waiting(f) = {f}
    BY <1>4, <1>5, WaitingUp, Zenon
  <2>2. \A g \in Serving(f) : g = f /\ ServesGuest(f)
    BY <2>1, Zenon DEF Serving, ServesGuest
  <2>3. Listed(f)
    BY <1>4, <2>2, Zenon DEF Listed, Chained
  <2> QED
    BY <1>4, <2>3, Zenon
<1>6. ASSUME NEW p \in Frames, frame[f].parent = p PROVE FALSE
  <2>1. p \in Live /\ Listed(p)
    BY <1>3, <1>4, <1>6, Zenon DEF Placed, B
  <2>2. \A g \in Serving(f) : (g = f /\ ServesGuest(f)) \/ g \in Serving(p)
    BY <1>4, <1>6, WaitingUp, Zenon DEF Serving, ServesGuest
  <2>3. p \notin {"gone", "cut"} /\ ChainAbove(f) = frame[p].ctx.chain
    BY <1>6, Apart, Zenon DEF ChainAbove
  <2>4. CASE ~ServesGuest(f)
    <3>1. frame[f].ctx.chain = frame[p].ctx.chain
      BY <1>4, <1>6, <2>3, <2>4, Zenon DEF Chained
    <3>2. Listed(f)
      BY <2>1, <2>2, <2>4, <3>1, Zenon DEF Listed
    <3> QED
      BY <1>4, <3>2, Zenon
  <2>5. CASE ServesGuest(f)
    <3>1. /\ frame[f].ctx.chain = Append(frame[p].ctx.chain, frame[f].serves)
          /\ frame[f].serves \notin Range(frame[p].ctx.chain)
      BY <1>4, <1>6, <2>3, <2>5, Zenon DEF Chained
    <3>2. frame[p].ctx.chain \in Seq(Capabilities) /\ frame[f].serves \in Capabilities
      BY <2>5, InvocationFields, ZenonT(60) DEF FramesInv, ServesGuest
    <3>3. Range(frame[f].ctx.chain) = Range(frame[p].ctx.chain) \union {frame[f].serves}
      BY <3>1, <3>2, AppendIs, SMTT(60)
    <3>4. \A g \in Serving(f) : frame[g].serves \in Range(frame[f].ctx.chain)
      BY <2>1, <2>2, <3>3, Zenon DEF Listed
    <3>5. \A g \in Serving(p) : frame[g].serves # frame[f].serves
      BY <2>1, <3>1, Zenon DEF Listed
    <3>6. ASSUME NEW g \in Serving(f), NEW h \in Serving(f), frame[g].serves = frame[h].serves PROVE g = h
      BY <2>1, <2>2, <3>5, <3>6, Zenon DEF Listed
    <3> QED
      BY <1>4, <3>4, <3>6, Zenon DEF Listed
  <2> QED
    BY <2>4, <2>5, Zenon
<1> QED
  BY <1>5, <1>6, Zenon

\* No more elements than places.
LEMMA RangeBound ==
    ASSUME NEW S, NEW s \in Seq(S)
    PROVE  IsFiniteSet(Range(s)) /\ Cardinality(Range(s)) \in Nat /\ Cardinality(Range(s)) <= Len(s)
<1>1. Len(s) \in Nat /\ DOMAIN s = 1..Len(s) /\ s \in [1..Len(s) -> S]
  BY SeqIs
<1>2. s \in Surjection(1..Len(s), Range(s))
  BY <1>1 DEF Surjection, Range
<1>3. ExistsSurjection(1..Len(s), Range(s))
  BY <1>2, Zenon DEF ExistsSurjection
<1>4. IsFiniteSet(Range(s))
  BY <1>1, <1>3, FS_NatSurjection, Zenon
<1> QED
  BY <1>1, <1>3, <1>4, FS_SurjCardinalityBound, FS_CardinalityType, Zenon

\* So no guest's capability runs inside itself, and the chain's bound is theirs.
LEMMA NoReentryFollows == KernelInv => NoReentry
<1> SUFFICES ASSUME KernelInv, NEW f \in Live
             PROVE  /\ Cardinality(Serving(f)) <= MaxDepth
                    /\ \A g, h \in Serving(f) : frame[g].serves = frame[h].serves => g = h
  BY Zenon DEF NoReentry, Serving
<1>1. Listed(f) /\ Chained(f) /\ frame[f] \in Invocations
  BY ListedAll, Zenon DEF KernelInv, FramesInv, ContextInv, Live
<1> DEFINE c == frame[f].ctx.chain
<1>2. c \in Seq(Capabilities) /\ Len(c) <= MaxDepth
  BY <1>1, InvocationFields, Zenon DEF Chained
<1> DEFINE of == [g \in Serving(f) |-> frame[g].serves]
<1>3. of \in [Serving(f) -> Range(c)] /\ \A g, h \in Serving(f) : of[g] = of[h] => g = h
  BY <1>1, Zenon DEF Listed
<1> HIDE DEF of, c
<1>4. of \in Injection(Serving(f), Range(c))
  BY <1>3 DEF Injection, IsInjective
<1>5. IsFiniteSet(Range(c)) /\ Cardinality(Range(c)) \in Nat /\ Cardinality(Range(c)) <= Len(c)
  BY <1>2, RangeBound, Zenon
<1>6. IsFiniteSet(Serving(f)) /\ Cardinality(Serving(f)) <= Cardinality(Range(c))
  BY <1>4, <1>5, FS_Injection, Zenon
<1>7. Cardinality(Serving(f)) \in Nat /\ Len(c) \in Nat
  BY <1>2, <1>6, FS_CardinalityType, SeqIs, Zenon
<1>8. Cardinality(Serving(f)) <= MaxDepth
  BY <1>2, <1>5, <1>6, <1>7, CallsAssumption, SMTT(60)
<1> QED
  BY <1>1, <1>8, Zenon DEF Listed

-----------------------------------------------------------------------------
(* HostCallsAreOwn.                                                          *)

\* A guest with grants is entered with its own environment.
LEMMA OwnFollows == KernelInv => HostCallsAreOwn
<1> SUFFICES ASSUME KernelInv PROVE HostCallsAreOwn
  OBVIOUS
<1>1. \A f \in Live : \A m \in {frame[f].sent} \union Range(frame[f].results) : m \in Guests => ~HasGrants(m)
  BY Zenon DEF KernelInv, FramesInv, ContextInv, Notes
<1>2. ASSUME NEW f \in Live, Guest(f), HasGrants(frame[f].module), NEW g \in Child(f)
      PROVE  frame[g].serves \in Range(Catalogue[frame[f].module].consumes)
  <2>1. /\ frame[f].ctx.deps # NoModule /\ frame[g].serves \in Range(Catalogue[frame[f].ctx.deps].consumes)
        /\ Entitled(f)
    BY <1>2, Zenon DEF KernelInv, FramesInv, ContextInv, CallsGranted
  <2>2. frame[f].ctx.deps = frame[f].module
    BY <1>2, <2>1, Zenon DEF Entitled, Granted
  <2> QED
    BY <2>1, <2>2, Zenon
<1> QED
  BY <1>1, <1>2, Zenon DEF HostCallsAreOwn

-----------------------------------------------------------------------------
(* PoolLast.                                                                 *)

\* When the pool is closed nothing is up, and whoever runs was given up on.
LEMMA PoolFollows == KernelInv => PoolLast
<1> SUFFICES ASSUME KernelInv PROVE PoolLast
  OBVIOUS
<1>1. FramesInv /\ PhaseInv /\ reg \in Registries /\ RegistryAgrees
  BY Zenon DEF KernelInv, RegistryInv
<1>2. PICK n, k \in 0..Len(reg.order) : StandsAt(n, k)
  BY <1>1, Zenon DEF PhaseInv, Standing
<1>3. up = First(n) /\ Cardinality(First(n)) = n /\ Range(SubSeq(reg.order, 1, n)) = First(n) /\ First(0) = {}
  BY <1>1, <1>2, FirstIs, Zenon DEF StandsAt
<1>4. up = Range(SubSeq(reg.order, 1, Cardinality(up)))
  BY <1>3
<1>5. ASSUME phase = "down"
      PROVE  /\ up = {} /\ loaded = {} /\ drain = "off" /\ consumer # "on"
             /\ \A f \in Live : Above(f) \intersect {"gone", "cut"} # {}
  <2>1. up = {} /\ loaded = {}
    BY <1>2, <1>3, <1>5, SMTT(60) DEF StandsAt
  <2>2. drain = "off" /\ consumer # "on"
    BY <1>1, <1>5 DEF PhaseInv
  <2>3. ASSUME NEW f \in Live PROVE Above(f) \intersect {"gone", "cut"} # {}
    <3>1. f \in Frames /\ Waiting(f) \subseteq Live /\ Waiting(f) \subseteq Frames /\ Closed(f, Waiting(f))
      BY <1>1, WaitingLive, WaitingIs, Zenon
    <3>2. PICK g \in Waiting(f) : frame[g].parent \notin Waiting(f)
      <4>1. Ranked /\ Waiting(f) # {}
        BY <1>1, <3>1, Zenon DEF FramesInv, TreeInv, Closed
      <4> QED
        BY <3>1, <4>1, Topmost, Zenon
    <3>3. g \in Live /\ g \in Frames /\ frame[g].parent \notin Frames /\ frame[g].parent \in Above(f)
      BY <3>1, <3>2, Zenon DEF Closed, Above
    <3>4. frame[g].parent \in Origins
      BY <1>1, <3>3, InvocationFields, Zenon DEF FramesInv
    <3>5. Admits(g)
      BY <1>1, <3>3, AdmittedIs, Zenon DEF PhaseInv
    <3>6. frame[g].parent \in {"gone", "cut"}
      BY <1>5, <2>1, <3>4, <3>5, SMTT(60) DEF Admits, Origins
    <3> QED
      BY <3>3, <3>6, Zenon
  <2> QED
    BY <2>1, <2>2, <2>3, Zenon
<1> QED
  BY <1>4, <1>5, Zenon DEF PoolLast

\* The start order, the handles of an invocation and the parents of frames stay in
\* their bounds (TypeOK), for every catalogue.
THEOREM Typed == Spec => []TypeOK
  BY KernelHolds, TypeFollows, PTL

\* For every catalogue of modules, hook points and policies, in every order of
\* answers, time limits and nested calls, Notify, Validate and Transform tell their
\* caller what the subscribers did (HookVerdict).
THEOREM VerdictsHold == Spec => []HookVerdict
  BY KernelHolds, VerdictsFollow, PTL

\* However embedded modules, guests and hook points call one another, no guest's
\* capability runs inside itself and no more than MaxDepth are nested (NoReentry).
THEOREM ReentryHolds == Spec => []NoReentry
  BY KernelHolds, NoReentryFollows, PTL

\* A guest with grants calls what those name and nothing else, and leaves handles and
\* events in the running invocation only (HostCallsAreOwn).
THEOREM OwnHolds == Spec => []HostCallsAreOwn
  BY KernelHolds, OwnFollows, PTL

\* For every number of modules and wherever a start fails, what is up is a prefix of
\* the registration order, and the pool is closed after everything that uses it,
\* except for what was given up on (PoolLast).
THEOREM PoolHolds == Spec => []PoolLast
  BY KernelHolds, PoolFollows, PTL
=============================================================================
