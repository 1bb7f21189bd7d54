---------------------------- MODULE CorpusProofs ----------------------------
(***************************************************************************)
(* Theorems about Corpus, for any number of workers, workspaces, files and *)
(* connector tools, texts of any length, and failures at any point.        *)
(***************************************************************************)
EXTENDS Corpus, TLAPS

AllChunks == UNION {Chunks(v) : v \in Versions}

(* TypeOK, with the table of points as a function.                         *)
Types == TypeOK /\ points \in [Spaces -> [Docs -> SUBSET AllChunks]]

Steps == {"idle", "next", "delete", "store", "index"}
HasDoc(me) == me.step \in {"delete", "store", "index"}

(* A worker in a protected workspace has only files before it, and one     *)
(* that has got past the guard with a connector result has a clean one.    *)
Sound(me) ==
  /\ me \in Busy \cup {Idle}
  /\ me.step # "idle" /\ me.ws \in Protected =>
       /\ me.todo \subseteq Files
       /\ HasDoc(me) => me.doc \in Files
  /\ HasDoc(me) /\ me.doc \in Tools => ~Risky(me.version)

Replacing(w, s, d) == worker[w].step = "store" /\ worker[w].ws = s /\ worker[w].doc = d

(* Nobody is at the document and it is whole, or emptied by a step that    *)
(* failed; or one worker is, with the version that began last.             *)
WholeInv(s, d) ==
  began[s][d] # 0 =>
    \/ /\ \A w \in Workers : ~Replacing(w, s, d)
       /\ \/ points[s][d] = Chunks(began[s][d])
          \/ points[s][d] = {} /\ faults > 0
    \/ /\ points[s][d] = {}
       /\ \E w \in Workers :
            /\ Replacing(w, s, d) /\ worker[w].version = began[s][d]
            /\ \A q \in Workers : Replacing(q, s, d) => q = w

PureInv(s, d) ==
  s \in Protected /\ d \in Tools =>
    /\ points[s][d] = {} /\ graph[s][d] = 0
    /\ \A v \in Versions : <<s, d, v>> \notin results

CleanInv(s, d) ==
  d \in Tools => /\ \A p \in points[s][d] : ~Risky(p[2])
                 /\ graph[s][d] # 0 => ~Risky(graph[s][d])

DocInv(s, d) == WholeInv(s, d) /\ PureInv(s, d) /\ CleanInv(s, d)

IInv ==
  /\ Types
  /\ \A w \in Workers : Sound(worker[w])
  /\ \A s \in Spaces, d \in Docs : DocInv(s, d)
-----------------------------------------------------------------------------
(* What a worker knows at each step.                                       *)
LEMMA WorkerShape ==
  ASSUME NEW me \in Busy \cup {Idle}
  PROVE  /\ me.step \in Steps
         /\ me.step = "idle" <=> me = Idle
         /\ me.step # "idle" => me.ws \in Spaces /\ me.todo \in SUBSET Docs
         /\ HasDoc(me) => me.doc \in Docs /\ me.version \in Versions
<1>1. CASE me = Idle
  BY <1>1 DEF Idle, Steps, HasDoc
<1>2. CASE me \in [step : {"next"}, ws : Spaces, todo : SUBSET Docs]
  <2>1. me # Idle
    BY <1>2 DEF Idle
  <2> QED
    BY <1>2, <2>1 DEF Steps, HasDoc
<1>3. CASE me \in [step : {"delete", "store", "index"}, ws : Spaces, todo : SUBSET Docs,
                   doc : Docs, version : Versions]
  <2>1. me # Idle
    BY <1>3 DEF Idle
  <2> QED
    BY <1>3, <2>1 DEF Steps, HasDoc
<1> QED
  BY <1>1, <1>2, <1>3 DEF Busy

(* The records a worker is given.                                          *)
LEMMA NewWorker ==
  ASSUME NEW s \in Spaces, NEW todo \in SUBSET Docs, NEW d \in Docs, NEW v \in Versions,
         NEW step \in {"delete", "store", "index"}
  PROVE  /\ Idle \in Busy \cup {Idle}
         /\ [step |-> "next", ws |-> s, todo |-> todo] \in Busy \cup {Idle}
         /\ [step |-> step, ws |-> s, todo |-> todo, doc |-> d, version |-> v]
               \in Busy \cup {Idle}
BY DEF Busy

LEMMA InitInv == Init => IInv
<1> SUFFICES ASSUME Init PROVE IInv
  OBVIOUS
<1>1. Types
  BY VersionAssumption DEF Init, Types, TypeOK, Versions
<1>2. \A w \in Workers : Sound(worker[w])
  BY DEF Init, Sound, Idle, HasDoc
<1>3. ASSUME NEW s \in Spaces, NEW d \in Docs PROVE DocInv(s, d)
  BY DEF Init, DocInv, WholeInv, PureInv, CleanInv
<1> QED
  BY <1>1, <1>2, <1>3 DEF IInv

-----------------------------------------------------------------------------
(* One worker moves on, and still is what it should be.                    *)
LEMMA OneWorker ==
  ASSUME IInv, NEW w \in Workers, NEW me, Sound(me), worker' = [worker EXCEPT ![w] = me]
  PROVE  /\ worker'[w] = me /\ \A q \in Workers : q # w => worker'[q] = worker[q]
         /\ \A q \in Workers : Sound(worker'[q])
         /\ worker' \in [Workers -> Busy \cup {Idle}]
<1>1. worker \in [Workers -> Busy \cup {Idle}] /\ me \in Busy \cup {Idle}
  BY DEF IInv, Types, TypeOK, Sound
<1>2. worker'[w] = me /\ \A q \in Workers : q # w => worker'[q] = worker[q]
  BY <1>1
<1>3. \A q \in Workers : Sound(worker'[q])
  BY <1>2 DEF IInv
<1> QED
  BY <1>1, <1>2, <1>3

(* The worker was not in the middle of a document, or leaves an empty one  *)
(* behind on account of a fault.                                           *)
LEMMA Leaves ==
  ASSUME IInv, NEW w \in Workers, \A q \in Workers : q # w => worker'[q] = worker[q],
         worker'[w].step # "store", worker[w].step # "store" \/ faults' > 0,
         faults > 0 => faults' > 0,
         UNCHANGED <<points, began>>, NEW s \in Spaces, NEW d \in Docs
  PROVE  WholeInv(s, d)'
<1>1. WholeInv(s, d)
  BY DEF IInv, DocInv
<1>2. /\ ~Replacing(w, s, d)'
      /\ \A q \in Workers : q # w => (Replacing(q, s, d)' <=> Replacing(q, s, d))
  BY DEF Replacing
<1>3. CASE Replacing(w, s, d)
  <2>1. faults' > 0
    BY <1>3 DEF Replacing
  <2> QED
    BY <1>1, <1>2, <1>3, <2>1 DEF WholeInv
<1>4. CASE ~Replacing(w, s, d)
  <2>1. \A q \in Workers : Replacing(q, s, d)' <=> Replacing(q, s, d)
    BY <1>4 DEF Replacing
  <2>2. ASSUME NEW q \in Workers, Replacing(q, s, d) PROVE worker'[q] = worker[q]
    BY <1>4, <2>2
  <2> HIDE DEF Replacing
  <2> QED
    BY <1>1, <2>1, <2>2 DEF WholeInv
<1> QED
  BY <1>3, <1>4

(* What no worker is changing stays pure and clean.                        *)
LEMMA Untouched ==
  ASSUME IInv, UNCHANGED <<points, graph, results>>, NEW s \in Spaces, NEW d \in Docs
  PROVE  PureInv(s, d)' /\ CleanInv(s, d)'
BY DEF IInv, DocInv, PureInv, CleanInv

(* A worker goes back to its list, with a document off it.                 *)
LEMMA BackToList ==
  ASSUME IInv, NEW w \in Workers, worker[w].step # "idle", NEW todo,
         todo \subseteq worker[w].todo
  PROVE  Sound([step |-> "next", ws |-> worker[w].ws, todo |-> todo])
<1>1. worker[w].ws \in Spaces /\ worker[w].todo \in SUBSET Docs /\ Sound(worker[w])
  BY WorkerShape DEF IInv, Sound
<1>2. [step |-> "next", ws |-> worker[w].ws, todo |-> todo] \in Busy
  BY <1>1 DEF Busy
<1> QED
  BY <1>1, <1>2 DEF Sound, HasDoc

LEMMA SourceStep ==
  ASSUME IInv, NEW d \in Docs, SourceChanges(d)
  PROVE  IInv'
<1>1. UNCHANGED <<points, results, graph, worker, began, faults>>
  BY DEF SourceChanges
<1>2. source' \in [Docs -> Versions]
  BY VersionAssumption DEF SourceChanges, IInv, Types, TypeOK, Versions
<1>3. Types'
  BY <1>1, <1>2 DEF IInv, Types, TypeOK
<1>4. ASSUME NEW s \in Spaces, NEW e \in Docs PROVE DocInv(s, e)'
  BY <1>1, <1>4 DEF IInv, DocInv, WholeInv, PureInv, CleanInv, Replacing
<1> QED
  BY <1>1, <1>3, <1>4 DEF IInv

(* A worker is set to work on files, or on the tools of a workspace that   *)
(* the guard lets it sync.                                                 *)
LEMMA StartStep ==
  ASSUME IInv, NEW w \in Workers, NEW ws \in Spaces, StartIngest(w, ws) \/ StartSync(w, ws)
  PROVE  IInv'
<1>1. worker[w] = Idle /\ UNCHANGED <<source, points, results, graph, began, faults>>
  BY DEF StartIngest, StartSync
<1>2. PICK s \in Spaces, todo \in SUBSET Docs :
        /\ worker' = [worker EXCEPT ![w] = [step |-> "next", ws |-> s, todo |-> todo]]
        /\ s \in Protected => todo \subseteq Files
  BY SpaceAssumption DEF StartIngest, StartSync, Blocked, Docs
<1> DEFINE me == [step |-> "next", ws |-> s, todo |-> todo]
<1>3. Sound(me)
  <2>1. me \in Busy
    BY DEF Busy
  <2> QED
    BY <1>2, <2>1 DEF Sound, HasDoc
<1>4. me.step = "next" /\ worker[w].step = "idle"
  BY <1>1 DEF Idle
<1> HIDE DEF me
<1>5. /\ worker'[w] = me /\ \A q \in Workers : q # w => worker'[q] = worker[q]
      /\ \A q \in Workers : Sound(worker'[q])
      /\ worker' \in [Workers -> Busy \cup {Idle}]
  BY <1>2, <1>3, OneWorker DEF me
<1>6. Types'
  BY <1>1, <1>5 DEF IInv, Types, TypeOK
<1>7. ASSUME NEW r \in Spaces, NEW d \in Docs PROVE DocInv(r, d)'
  BY <1>1, <1>4, <1>5, Leaves, Untouched DEF DocInv
<1> QED
  BY <1>5, <1>6, <1>7 DEF IInv

-----------------------------------------------------------------------------
(* A document is skipped, or taken on by a worker that may have it.        *)
LEMMA Handed ==
  ASSUME IInv, NEW w \in Workers, NEW d \in Docs,
         worker[w].step = "next", d \in worker[w].todo,
         Skip(w, d) \/ (Take(w, d) /\ (d \in Tools => ~Risky(source[d])))
  PROVE  /\ worker'[w].step # "store" /\ \A q \in Workers : q # w => worker'[q] = worker[q]
         /\ \A q \in Workers : Sound(worker'[q])
         /\ worker' \in [Workers -> Busy \cup {Idle}]
<1> DEFINE back == [step |-> "next", ws |-> worker[w].ws, todo |-> worker[w].todo \ {d}]
           on   == [step |-> "delete", ws |-> worker[w].ws, todo |-> worker[w].todo,
                    doc |-> d, version |-> source[d]]
<1>1. worker[w] \in Busy \cup {Idle} /\ source[d] \in Versions /\ Sound(worker[w])
  BY DEF IInv, Types, TypeOK
<1>2. PICK me : worker' = [worker EXCEPT ![w] = me] /\ Sound(me) /\ me.step # "store"
  <2>1. CASE Skip(w, d)
    <3>1. Sound(back)
      BY BackToList
    <3>2. worker' = [worker EXCEPT ![w] = back] /\ back.step # "store"
      BY <2>1 DEF Skip
    <3> QED
      BY <3>1, <3>2
  <2>2. CASE Take(w, d) /\ (d \in Tools => ~Risky(source[d]))
    <3>1. /\ worker' = [worker EXCEPT ![w] = on] /\ on.step # "store"
          /\ on.doc = d /\ on.version = source[d]
      BY <2>2 DEF Take
    <3>2. on \in Busy \cup {Idle}
      BY <1>1, WorkerShape, NewWorker
    <3>3. on.ws \in Protected => on.todo \subseteq Files /\ on.doc \in Files
      BY <1>1 DEF Sound
    <3> HIDE DEF on
    <3>4. Sound(on)
      BY <2>2, <3>1, <3>2, <3>3 DEF Sound
    <3> QED
      BY <3>1, <3>4
  <2> QED
    BY <2>1, <2>2
<1> QED
  BY <1>2, OneWorker

(* A file is read; an empty one is skipped.                                *)
LEMMA ReadFileStep ==
  ASSUME IInv, NEW w \in Workers, NEW d \in Docs, ReadFile(w, d)
  PROVE  IInv'
<1>1. /\ worker[w].step = "next" /\ d \in worker[w].todo /\ d \notin Tools
      /\ UNCHANGED <<source, points, results, graph, began, faults>>
      /\ Skip(w, d) \/ Take(w, d)
  BY LaneAssumption DEF ReadFile
<1>2. /\ worker'[w].step # "store" /\ \A q \in Workers : q # w => worker'[q] = worker[q]
      /\ \A q \in Workers : Sound(worker'[q])
      /\ worker' \in [Workers -> Busy \cup {Idle}]
  BY <1>1, Handed
<1>3. Types'
  BY <1>1, <1>2 DEF IInv, Types, TypeOK
<1>4. ASSUME NEW s \in Spaces, NEW e \in Docs PROVE DocInv(s, e)'
  BY <1>1, <1>2, Leaves, Untouched DEF DocInv
<1> QED
  BY <1>2, <1>3, <1>4 DEF IInv

(* A connector result is stored, and goes on to be sliced if it is clean.  *)
LEMMA PullToolStep ==
  ASSUME IInv, NEW w \in Workers, NEW d \in Docs, PullTool(w, d)
  PROVE  IInv'
<1>1. /\ worker[w].step = "next" /\ d \in worker[w].todo /\ d \in Tools
      /\ UNCHANGED <<source, points, graph, began, faults>>
      /\ results' = results \cup {<<worker[w].ws, d, source[d]>>}
      /\ Skip(w, d) \/ (Take(w, d) /\ ~Risky(source[d]))
  BY DEF PullTool
<1>2. /\ worker[w].ws \in Spaces /\ source[d] \in Versions /\ Sound(worker[w])
  BY <1>1, WorkerShape DEF IInv, Types, TypeOK
<1>3. /\ worker'[w].step # "store" /\ \A q \in Workers : q # w => worker'[q] = worker[q]
      /\ \A q \in Workers : Sound(worker'[q])
      /\ worker' \in [Workers -> Busy \cup {Idle}]
  BY <1>1, Handed
<1>4. Types'
  BY <1>1, <1>2, <1>3 DEF IInv, Types, TypeOK
<1>5. worker[w].ws \notin Protected
  BY <1>1, <1>2, LaneAssumption DEF Sound
<1>6. ASSUME NEW s \in Spaces, NEW e \in Docs PROVE DocInv(s, e)'
  <2>1. WholeInv(s, e)'
    BY <1>1, <1>3, Leaves
  <2>2. PureInv(s, e)' /\ CleanInv(s, e)'
    BY <1>1, <1>5 DEF IInv, DocInv, PureInv, CleanInv
  <2> QED
    BY <2>1, <2>2 DEF DocInv
<1> QED
  BY <1>3, <1>4, <1>6 DEF IInv

-----------------------------------------------------------------------------
(* A step of a worker that has a document to the next step with it.        *)
LEMMA StepOn ==
  ASSUME IInv, NEW w \in Workers, HasDoc(worker[w]), NEW step \in {"store", "index"},
         worker' = [worker EXCEPT ![w].step = step]
  PROVE  /\ worker'[w] = [worker[w] EXCEPT !.step = step]
         /\ worker'[w].step = step /\ worker'[w].ws = worker[w].ws
         /\ worker'[w].doc = worker[w].doc /\ worker'[w].version = worker[w].version
         /\ \A q \in Workers : q # w => worker'[q] = worker[q]
         /\ \A q \in Workers : Sound(worker'[q])
         /\ worker' \in [Workers -> Busy \cup {Idle}]
<1> DEFINE me == [worker[w] EXCEPT !.step = step]
<1>1. worker[w] \in Busy \cup {Idle} /\ Sound(worker[w])
  BY DEF IInv, Types, TypeOK
<1>2. worker[w] \in [step : {"delete", "store", "index"}, ws : Spaces, todo : SUBSET Docs,
                     doc : Docs, version : Versions]
  BY <1>1 DEF Busy, HasDoc, Idle
<1>3. /\ me \in Busy /\ me.step = step /\ me.ws = worker[w].ws /\ me.todo = worker[w].todo
      /\ me.doc = worker[w].doc /\ me.version = worker[w].version
  BY <1>2 DEF Busy
<1>4. worker' = [worker EXCEPT ![w] = me]
  OBVIOUS
<1>5. HasDoc(me) /\ worker[w].step # "idle"
  BY <1>3 DEF HasDoc
<1> HIDE DEF me
<1>6. Sound(me)
  BY <1>1, <1>3, <1>5 DEF Sound
<1>7. /\ worker'[w] = me /\ \A q \in Workers : q # w => worker'[q] = worker[q]
      /\ \A q \in Workers : Sound(worker'[q])
      /\ worker' \in [Workers -> Busy \cup {Idle}]
  BY <1>4, <1>6, OneWorker
<1> QED
  BY <1>3, <1>7 DEF me

(* What is in the table of another document does not matter to this one.   *)
LEMMA OtherDocument ==
  ASSUME IInv, NEW w \in Workers, \A q \in Workers : q # w => worker'[q] = worker[q],
         NEW s \in Spaces, NEW d \in Docs,
         ~Replacing(w, s, d), ~Replacing(w, s, d)',
         points'[s][d] = points[s][d], began'[s][d] = began[s][d], UNCHANGED faults
  PROVE  WholeInv(s, d)'
<1>1. WholeInv(s, d)
  BY DEF IInv, DocInv
<1>2. \A q \in Workers : Replacing(q, s, d)' <=> Replacing(q, s, d)
  BY DEF Replacing
<1>3. ASSUME NEW q \in Workers, Replacing(q, s, d) PROVE worker'[q] = worker[q]
  BY <1>3
<1> HIDE DEF Replacing
<1> QED
  BY <1>1, <1>2, <1>3 DEF WholeInv

LEMMA DeleteStep ==
  ASSUME IInv, NEW w \in Workers, DeleteDocument(w)
  PROVE  IInv'
<1> DEFINE ws  == worker[w].ws
           doc == worker[w].doc
<1>1. /\ worker[w].step = "delete" /\ UNCHANGED <<source, results, graph, faults>>
      /\ points' = [points EXCEPT ![ws][doc] = {}]
      /\ began' = [began EXCEPT ![ws][doc] =
                     IF BeingReplaced(ws, doc) THEN 0 ELSE worker[w].version]
      /\ worker' = [worker EXCEPT ![w].step = "store"]
  BY DEF DeleteDocument, Begin
<1>2. HasDoc(worker[w]) /\ worker[w].step # "idle"
  BY <1>1 DEF HasDoc
<1>3. ws \in Spaces /\ doc \in Docs /\ worker[w].version \in Versions
  BY <1>2, WorkerShape DEF IInv, Types, TypeOK
<1>4. /\ worker'[w].step = "store" /\ worker'[w].ws = ws
      /\ worker'[w].doc = doc /\ worker'[w].version = worker[w].version
      /\ \A q \in Workers : q # w => worker'[q] = worker[q]
      /\ \A q \in Workers : Sound(worker'[q])
      /\ worker' \in [Workers -> Busy \cup {Idle}]
  BY <1>1, <1>2, StepOn
<1> HIDE DEF ws, doc
<1>5. /\ points \in [Spaces -> [Docs -> SUBSET AllChunks]]
      /\ began \in [Spaces -> [Docs -> 0 .. MaxVersion]]
  BY DEF IInv, Types, TypeOK
<1>6. \A s \in Spaces, d \in Docs :
        /\ points'[s][d] = IF s = ws /\ d = doc THEN {} ELSE points[s][d]
        /\ began'[s][d] = IF s = ws /\ d = doc
                          THEN IF BeingReplaced(ws, doc) THEN 0 ELSE worker[w].version
                          ELSE began[s][d]
  BY <1>1, <1>3, <1>5
<1>7. Types'
  <2>1. points' \in [Spaces -> [Docs -> SUBSET AllChunks]]
    BY <1>1, <1>3, <1>5
  <2>2. began' \in [Spaces -> [Docs -> 0 .. MaxVersion]]
    <3>1. (IF BeingReplaced(ws, doc) THEN 0 ELSE worker[w].version) \in 0 .. MaxVersion
      BY <1>3, VersionAssumption DEF Versions
    <3> QED
      BY <1>1, <1>3, <1>5, <3>1
  <2>3. \A s \in Spaces, d \in Docs : points'[s][d] \subseteq AllChunks
    BY <2>1
  <2> QED
    BY <1>1, <1>4, <2>1, <2>2, <2>3 DEF IInv, Types, TypeOK, AllChunks
<1>8. ASSUME NEW s \in Spaces, NEW d \in Docs PROVE DocInv(s, d)'
  <2>1. PureInv(s, d)' /\ CleanInv(s, d)'
    BY <1>1, <1>6 DEF IInv, DocInv, PureInv, CleanInv
  <2>2. WholeInv(s, d)'
    <3>1. CASE s = ws /\ d = doc /\ BeingReplaced(ws, doc)
      <4>1. began'[s][d] = 0
        BY <1>6, <3>1
      <4> QED
        BY <4>1 DEF WholeInv
    <3>2. CASE s = ws /\ d = doc /\ ~BeingReplaced(ws, doc)
      <4>1. /\ points'[s][d] = {} /\ began'[s][d] = worker[w].version
            /\ Replacing(w, s, d)' /\ worker'[w].version = began'[s][d]
        BY <1>4, <1>6, <3>2 DEF Replacing
      <4>2. \A q \in Workers : Replacing(q, s, d)' => q = w
        BY <1>4, <3>2 DEF BeingReplaced, Replacing
      <4> QED
        BY <4>1, <4>2 DEF WholeInv
    <3>3. CASE ~(s = ws /\ d = doc)
      <4>1. ~Replacing(w, s, d) /\ ~Replacing(w, s, d)'
        BY <1>1, <1>4, <3>3 DEF Replacing
      <4> QED
        BY <1>1, <1>4, <1>6, <3>3, <4>1, OtherDocument
    <3> QED
      BY <3>1, <3>2, <3>3
  <2> QED
    BY <2>1, <2>2 DEF DocInv
<1> QED
  BY <1>4, <1>7, <1>8 DEF IInv

LEMMA StoreStep ==
  ASSUME IInv, NEW w \in Workers, StoreChunks(w)
  PROVE  IInv'
<1> DEFINE ws  == worker[w].ws
           doc == worker[w].doc
           new == Chunks(worker[w].version)
<1>1. /\ worker[w].step = "store" /\ UNCHANGED <<source, results, graph, began, faults>>
      /\ points' = [points EXCEPT ![ws][doc] = @ \cup new]
      /\ worker' = [worker EXCEPT ![w].step = "index"]
  BY DEF StoreChunks
<1>2. HasDoc(worker[w]) /\ worker[w].step # "idle"
  BY <1>1 DEF HasDoc
<1>3. /\ ws \in Spaces /\ doc \in Docs /\ worker[w].version \in Versions
      /\ Sound(worker[w]) /\ Replacing(w, ws, doc)
  BY <1>1, <1>2, WorkerShape DEF IInv, Types, TypeOK, Replacing
<1>4. /\ worker'[w].step = "index" /\ worker'[w].ws = ws /\ worker'[w].doc = doc
      /\ \A q \in Workers : q # w => worker'[q] = worker[q]
      /\ \A q \in Workers : Sound(worker'[q])
      /\ worker' \in [Workers -> Busy \cup {Idle}]
  BY <1>1, <1>2, StepOn
<1>5. points \in [Spaces -> [Docs -> SUBSET AllChunks]] /\ new \in SUBSET AllChunks
  BY <1>3 DEF IInv, Types, TypeOK, AllChunks
<1>6. ws \in Protected => doc \notin Tools
  BY <1>2, <1>3, LaneAssumption DEF Sound
<1>7. doc \in Tools => \A p \in new : ~Risky(p[2])
  BY <1>2, <1>3 DEF Sound, Chunks
<1>8. began[ws][doc] # 0 =>
        /\ points[ws][doc] = {} /\ worker[w].version = began[ws][doc]
        /\ \A q \in Workers : Replacing(q, ws, doc) => q = w
  <2>1. WholeInv(ws, doc)
    BY <1>3 DEF IInv, DocInv
  <2> QED
    BY <1>3, <2>1 DEF WholeInv
<1>9. began[ws][doc] # 0 => new = Chunks(began[ws][doc])
  BY <1>8
<1> HIDE DEF ws, doc, new
<1>10. \A s \in Spaces, d \in Docs :
         points'[s][d] = IF s = ws /\ d = doc THEN points[s][d] \cup new ELSE points[s][d]
  BY <1>1, <1>3, <1>5
<1>11. Types'
  <2>1. points' \in [Spaces -> [Docs -> SUBSET AllChunks]]
    BY <1>1, <1>3, <1>5
  <2>2. \A s \in Spaces, d \in Docs : points'[s][d] \subseteq AllChunks
    BY <2>1
  <2> QED
    BY <1>1, <1>4, <2>1, <2>2 DEF IInv, Types, TypeOK, AllChunks
<1>12. ASSUME NEW s \in Spaces, NEW d \in Docs PROVE DocInv(s, d)'
  <2>1. PureInv(s, d)' /\ CleanInv(s, d)'
    BY <1>1, <1>6, <1>7, <1>10 DEF IInv, DocInv, PureInv, CleanInv
  <2>2. WholeInv(s, d)'
    <3>1. CASE s = ws /\ d = doc
      <4>1. ASSUME began[s][d] # 0
            PROVE  /\ points'[s][d] = Chunks(began[s][d])
                   /\ \A q \in Workers : ~Replacing(q, s, d)'
        <5>1. points'[s][d] = Chunks(began[s][d])
          BY <1>8, <1>9, <1>10, <3>1, <4>1
        <5>2. \A q \in Workers : ~Replacing(q, s, d)'
          BY <1>4, <1>8, <3>1, <4>1 DEF Replacing
        <5> QED
          BY <5>1, <5>2
      <4> QED
        BY <1>1, <4>1 DEF WholeInv
    <3>2. CASE ~(s = ws /\ d = doc)
      <4>1. ~Replacing(w, s, d) /\ ~Replacing(w, s, d)'
        BY <1>1, <1>4, <3>2 DEF Replacing, ws, doc
      <4> QED
        BY <1>1, <1>4, <1>10, <3>2, <4>1, OtherDocument
    <3> QED
      BY <3>1, <3>2
  <2> QED
    BY <2>1, <2>2 DEF DocInv
<1> QED
  BY <1>4, <1>11, <1>12 DEF IInv

(* The graph follows, or reports nothing indexed.                          *)
LEMMA IndexStep ==
  ASSUME IInv, NEW w \in Workers, IndexDocument(w)
  PROVE  IInv'
<1> DEFINE ws  == worker[w].ws
           doc == worker[w].doc
           back == [step |-> "next", ws |-> ws, todo |-> worker[w].todo \ {doc}]
<1>1. /\ worker[w].step = "index" /\ UNCHANGED <<source, points, results, began, faults>>
      /\ worker' = [worker EXCEPT ![w] = back]
  BY DEF IndexDocument, Skip
<1>2. PICK v \in {worker[w].version, graph[ws][doc]} :
        graph' = [graph EXCEPT ![ws][doc] = v]
  BY DEF IndexDocument
<1>3. HasDoc(worker[w]) /\ worker[w].step # "idle"
  BY <1>1 DEF HasDoc
<1>4. /\ ws \in Spaces /\ doc \in Docs /\ worker[w].version \in Versions
      /\ Sound(worker[w])
  BY <1>3, WorkerShape DEF IInv, Types, TypeOK
<1>5. Sound(back) /\ back.step # "store"
  BY <1>3, BackToList
<1>6. /\ ws \in Protected => doc \notin Tools
      /\ doc \in Tools => ~Risky(worker[w].version)
  BY <1>3, <1>4, LaneAssumption DEF Sound
<1>7. worker[w].version \in 0 .. MaxVersion
  BY <1>4, VersionAssumption DEF Versions
<1> HIDE DEF ws, doc, back
<1>8. /\ worker'[w] = back /\ \A q \in Workers : q # w => worker'[q] = worker[q]
      /\ \A q \in Workers : Sound(worker'[q])
      /\ worker' \in [Workers -> Busy \cup {Idle}]
  BY <1>1, <1>5, OneWorker
<1>9. \A s \in Spaces, d \in Docs :
        graph'[s][d] = IF s = ws /\ d = doc THEN v ELSE graph[s][d]
  BY <1>2, <1>4 DEF IInv, Types, TypeOK
<1>10. Types'
  <2>1. graph' \in [Spaces -> [Docs -> 0 .. MaxVersion]]
    BY <1>2, <1>4, <1>7 DEF IInv, Types, TypeOK
  <2> QED
    BY <1>1, <1>8, <2>1 DEF IInv, Types, TypeOK
<1>11. ASSUME NEW s \in Spaces, NEW d \in Docs PROVE DocInv(s, d)'
  <2>1. WholeInv(s, d)'
    BY <1>1, <1>5, <1>8, Leaves
  <2>2. PureInv(s, d)' /\ CleanInv(s, d)'
    BY <1>1, <1>2, <1>6, <1>9 DEF IInv, DocInv, PureInv, CleanInv
  <2> QED
    BY <2>1, <2>2 DEF DocInv
<1> QED
  BY <1>8, <1>10, <1>11 DEF IInv

(* A worker is done, gives up on a document or dies: what it leaves behind *)
(* is as it was, or empty on account of a fault.                           *)
LEMMA LeaveStep ==
  ASSUME IInv, NEW w \in Workers,
         Finish(w) \/ WorkerDies(w) \/ \E d \in Docs : DocumentFails(w, d)
  PROVE  IInv'
<1>1. /\ UNCHANGED <<source, points, results, graph, began>>
      /\ faults' \in 0 .. MaxFaults /\ (faults > 0 => faults' > 0)
      /\ worker[w].step # "store" \/ faults' > 0
  <2>1. faults \in 0 .. MaxFaults /\ MaxFaults \in Nat
    BY VersionAssumption DEF IInv, Types, TypeOK
  <2>2. CASE Finish(w)
    BY <2>1, <2>2 DEF Finish
  <2>3. CASE WorkerDies(w)
    BY <2>1, <2>3 DEF WorkerDies
  <2>4. CASE \E d \in Docs : DocumentFails(w, d)
    BY <2>1, <2>4 DEF DocumentFails
  <2> QED
    BY <2>2, <2>3, <2>4
<1>2. PICK me : worker' = [worker EXCEPT ![w] = me] /\ Sound(me) /\ me.step # "store"
  <2>1. CASE Finish(w) \/ WorkerDies(w)
    <3>1. worker' = [worker EXCEPT ![w] = Idle]
      BY <2>1 DEF Finish, WorkerDies
    <3>2. Sound(Idle) /\ Idle.step # "store"
      BY DEF Sound, Idle, HasDoc
    <3> QED
      BY <3>1, <3>2
  <2>2. CASE \E d \in Docs : DocumentFails(w, d)
    <3>1. PICK d \in Docs : DocumentFails(w, d)
      BY <2>2
    <3> DEFINE back == [step |-> "next", ws |-> worker[w].ws, todo |-> worker[w].todo \ {d}]
    <3>2. worker' = [worker EXCEPT ![w] = back] /\ back.step # "store"
      BY <3>1 DEF DocumentFails, Skip
    <3>3. worker[w].step # "idle"
      BY <3>1 DEF DocumentFails
    <3>4. Sound(back)
      BY <3>3, BackToList
    <3> QED
      BY <3>2, <3>4
  <2> QED
    BY <2>1, <2>2
<1>3. /\ worker'[w] = me /\ \A q \in Workers : q # w => worker'[q] = worker[q]
      /\ \A q \in Workers : Sound(worker'[q])
      /\ worker' \in [Workers -> Busy \cup {Idle}]
  BY <1>2, OneWorker
<1>4. Types'
  BY <1>1, <1>3 DEF IInv, Types, TypeOK
<1>5. ASSUME NEW s \in Spaces, NEW d \in Docs PROVE DocInv(s, d)'
  BY <1>1, <1>2, <1>3, Leaves, Untouched DEF DocInv
<1> QED
  BY <1>3, <1>4, <1>5 DEF IInv

LEMMA NextStep == IInv /\ [Next]_vars => IInv'
<1> SUFFICES ASSUME IInv, [Next]_vars PROVE IInv'
  OBVIOUS
<1>1. CASE \E d \in Docs : SourceChanges(d)
  BY <1>1, SourceStep
<1>2. CASE \E w \in Workers, ws \in Spaces : StartIngest(w, ws) \/ StartSync(w, ws)
  BY <1>2, StartStep
<1>3. CASE \E w \in Workers : work(w)
  <2>1. PICK w \in Workers : work(w)
    BY <1>3
  <2>2. CASE \E d \in Docs : PullTool(w, d) \/ ReadFile(w, d)
    BY <2>2, PullToolStep, ReadFileStep
  <2>3. CASE DeleteDocument(w) \/ StoreChunks(w) \/ IndexDocument(w) \/ Finish(w)
    BY <2>3, DeleteStep, StoreStep, IndexStep, LeaveStep
  <2> QED
    BY <2>1, <2>2, <2>3 DEF work
<1>4. CASE \/ \E w \in Workers, d \in Docs : DocumentFails(w, d)
           \/ \E w \in Workers : WorkerDies(w)
  BY <1>4, LeaveStep
<1>5. CASE UNCHANGED vars
  <2>1. UNCHANGED <<source, points, results, graph, worker, began, faults>>
    BY <1>5 DEF vars
  <2>2. Types'
    BY <2>1 DEF IInv, Types, TypeOK
  <2>3. ASSUME NEW s \in Spaces, NEW d \in Docs PROVE DocInv(s, d)'
    BY <2>1 DEF IInv, DocInv, WholeInv, PureInv, CleanInv, Replacing
  <2> QED
    BY <2>1, <2>2, <2>3 DEF IInv
<1> QED
  BY <1>1, <1>2, <1>3, <1>4, <1>5 DEF Next

-----------------------------------------------------------------------------
(* The tables, the graph and the workers of the two ingest lanes keep      *)
(* their types, and the inductive invariant holds.                         *)
THEOREM CorpusInvariant == Spec => []IInv
BY InitInv, NextStep, PTL DEF Spec

(* Whatever workspace a sync is asked for, and however many syncs and      *)
(* ingests overlap or die, the protected corpora hold nothing of a         *)
(* synthetic connector: no chunk, no entity, not even the raw result.      *)
THEOREM ProtectedCorporaArePure == Spec => []RealCorpusIsPure
<1>1. IInv => RealCorpusIsPure
  BY SpaceAssumption DEF IInv, DocInv, PureInv, RealCorpusIsPure, Docs
<1> QED
  BY <1>1, CorpusInvariant, PTL

(* A connector result that the guard flags never becomes a chunk or an     *)
(* entity of any workspace, for any set of injection patterns.             *)
THEOREM FlaggedResultsStayOut == Spec => []QuarantineHolds
<1>1. IInv => QuarantineHolds
  BY DEF IInv, DocInv, CleanInv, QuarantineHolds, Docs
<1> QED
  BY <1>1, CorpusInvariant, PTL

(* A document that workers replaced one at a time holds the chunks of its  *)
(* last version and nothing else, or nothing because a step failed, for    *)
(* any number of workers and chunks.                                       *)
THEOREM DocumentsAreWhole == Spec => []WholeDocuments
<1>1. IInv => WholeDocuments
  BY DEF IInv, DocInv, WholeInv, WholeDocuments, BeingReplaced, Replacing
<1> QED
  BY <1>1, CorpusInvariant, PTL
=============================================================================
