------------------------- MODULE InterceptorLoaderProofs -------------------------
(***************************************************************************)
(* Proofs about the loader of interceptors, for any files and contents,    *)
(* any number of clients that write, delete and ask for reloads, any       *)
(* number of edits, and loads that overlap in any way.  LoaderInd is       *)
(* inductive: as long as nothing has changed since the last load began, a  *)
(* load that is alone has got just what the files of the directory serve,  *)
(* each by the module kept of it or by what it holds, and keeping one more *)
(* module changes nothing of that; and what a client wrote, while it       *)
(* stands, is what a load the client waits for has read of that file, or   *)
(* has still to read.                                                      *)
(***************************************************************************)
EXTENDS InterceptorLoader, FiniteSetTheorems, WellFoundedInduction, TLAPS

(* What a load is, and what it found of a file. *)
LoadState == [stage : {"idle", "list", "import"}, todo : SUBSET File, got : SUBSET (File \X Content)]
Entries(found, p) == {e \in found : e[1] = p}

(* The clients that began something. *)
Begun == {k \in Caller : call[k] \notin {"idle", "refused"}}

(* Every timer was set by a change, and every change is counted. *)
Counts ==
    /\ fires \in Nat /\ edits \in 0 .. MaxEdits
    /\ fires + (IF timer THEN 1 ELSE 0) <= edits + Cardinality(Begun)

(* The state has its types; the first load is over before anything else    *)
(* begins, and a client waits for the load it began.                       *)
StateInd ==
    /\ disk \in [Path -> Content \cup {None}]
    /\ cache \in [Path -> (Content \ Broken) \cup {None}]
    /\ loaded \subseteq File \X Content
    /\ phase \in {"loading", "arming", "ready"}
    /\ watching \in BOOLEAN /\ timer \in BOOLEAN /\ closed \in BOOLEAN
    /\ overlapped \in BOOLEAN /\ missed \in BOOLEAN
    /\ loads \in [Loads -> LoadState]
    /\ call \in [Caller -> {"idle", "written", "refused", "waiting", "answered"}]
    /\ wrote \in [Caller -> (Path \cup {None}) \X (Content \cup {None})]
    /\ standing \subseteq Caller
    /\ phase = "loading" <=> loads[0].stage # "idle"
    /\ phase = "loading" => \A l \in Busy : l = 0
    /\ watching => phase = "ready"
    /\ timer => watching
    /\ \A k \in Caller : call[k] = "waiting" <=> loads[k].stage # "idle"
    /\ ~ overlapped => \A l, m \in Busy : l = m
    /\ \A l \in Loads : loads[l].stage = "import" =>
          loads[l].todo # {} /\ \A e \in loads[l].got : e[1] \notin loads[l].todo

(* Nothing has changed in the directory since the last load began.         *)
Unchanged == ~ missed /\ ~ timer /\ (watching \/ phase # "ready")

(* Then a load that is alone has got what is served, so far, and has to    *)
(* get the rest.                                                           *)
CurrentInd ==
    Unchanged /\ ~ overlapped =>
        /\ Busy = {} => loaded = Served
        /\ \A l \in Loads : loads[l].stage = "import" =>
              /\ \A f \in loads[l].todo : disk[f] # None
              /\ loads[l].got = {e \in Served : e[1] \notin loads[l].todo}

(* What a client wrote that stands is on the disk, and no other module of  *)
(* the file is kept; a load that it waits for has read that file as it is, *)
(* or has still to read it.                                                *)
StandingInd ==
    \A k \in standing :
        /\ disk[wrote[k][1]] = wrote[k][2]
        /\ wrote[k][2] # None => cache[wrote[k][1]] \in {None, wrote[k][2]}
        /\ call[k] \in {"written", "waiting", "answered"}
        /\ loads[k].stage = "import" =>
              IF wrote[k][1] \in loads[k].todo THEN wrote[k][2] # None
              ELSE Entries(loads[k].got, wrote[k][1]) = {wrote[k]} \cap (File \X Content)

(* The same of what a load has still to get and what it has got: it agrees *)
(* with the directory and with what stands.                                *)
Accurate(l, todo, got) ==
    /\ todo \in SUBSET File /\ got \in SUBSET (File \X Content)
    /\ \A e \in got : e[1] \notin todo
    /\ Unchanged /\ ~ overlapped =>
          /\ \A f \in todo : disk[f] # None
          /\ got = {e \in Served : e[1] \notin todo}
    /\ l \in standing =>
          IF wrote[l][1] \in todo THEN wrote[l][2] # None
          ELSE Entries(got, wrote[l][1]) = {wrote[l]} \cap (File \X Content)

LoaderInd == StateInd /\ Counts /\ CurrentInd /\ StandingInd

(* A step of a load may keep a module more, and that changes nothing of    *)
(* what is served or of what stands.                                       *)
Keeps ==
    /\ cache' \in [Path -> (Content \ Broken) \cup {None}]
    /\ Served' = Served
    /\ \A k \in standing : wrote[k][2] # None => cache'[wrote[k][1]] \in {None, wrote[k][2]}

-----------------------------------------------------------------------------
(* Loads and files. *)

(* The first load is no client's.                                          *)
LEMMA FirstLoad == 0 \in Loads /\ 0 \notin Caller /\ Caller \subseteq Loads
BY LoaderAssumption, FS_CardinalityType DEF Loads

(* The file that is next is one of those to be loaded.                     *)
LEMMA FirstIsOne ==
    ASSUME NEW todo \in SUBSET File, todo # {}
    PROVE  First(todo) \in todo
<1> DEFINE P == {n \in DOMAIN Files : Files[n] \in todo}
<1>1. P \subseteq Nat /\ P # {}
  BY LoaderAssumption DEF File
<1>2. \E n \in P : \A m \in P : ~ (<<m, n>> \in OpToRel(<, Nat))
  BY <1>1, WFMin, NatLessThanWellFounded, Zenon
<1>3. PICK n \in P : \A m \in P : ~ (m < n)
  BY <1>1, <1>2 DEF OpToRel
<1>4. \A m \in DOMAIN Files : Files[m] \in todo => n <= m
  BY <1>1, <1>3
<1> QED BY <1>3, <1>4 DEF First

(* No more clients have begun something than there are.                    *)
LEMMA BegunFit ==
    /\ IsFiniteSet(Begun) /\ Cardinality(Begun) \in Nat /\ Cardinality(Caller) \in Nat
    /\ Cardinality(Begun) <= Cardinality(Caller)
<1>1. IsFiniteSet(Caller) /\ Begun \subseteq Caller
  BY LoaderAssumption DEF Begun
<1> QED BY <1>1, FS_Subset, FS_CardinalityType

(* So there is a load for the timer.                                       *)
LEMMA FireHasLoad == Counts /\ timer => fires + 1 \in Loads \ (Caller \cup {0})
<1>1. /\ Cardinality(Begun) \in Nat /\ Cardinality(Caller) \in Nat
      /\ Cardinality(Begun) <= Cardinality(Caller)
  BY BegunFit
<1> QED BY <1>1, LoaderAssumption DEF Counts, Loads

(* One client more.                                                        *)
LEMMA OneBegins ==
    ASSUME NEW k \in Caller, k \notin Begun, Begun' = Begun \cup {k}
    PROVE  Cardinality(Begun') = Cardinality(Begun) + 1
BY BegunFit, FS_AddElement

-----------------------------------------------------------------------------
(* Loads go on, end and begin. *)

(* A load ends: what it found is loaded.                                   *)
LEMMA LoadEnds ==
    ASSUME LoaderInd, NEW l \in Loads, loads[l].stage # "idle",
           NEW found \in SUBSET (File \X Content), EndLoad(l, found), Keeps,
           UNCHANGED <<disk, watching, timer, closed, wrote, standing, fires, edits,
                       overlapped, missed>>,
           Unchanged /\ ~ overlapped => found = Served
    PROVE  LoaderInd'
<1> USE DEF LoaderInd
<1>1. /\ loaded' = found /\ loads' = [loads EXCEPT ![l] = Idle]
      /\ phase' = IF l = 0 THEN "arming" ELSE phase
      /\ call' = IF l \in Caller THEN [call EXCEPT ![l] = "answered"] ELSE call
      /\ l = 0 <=> phase = "loading"
      /\ l \in Caller => call[l] = "waiting"
      /\ cache' \in [Path -> (Content \ Broken) \cup {None}] /\ Served' = Served
  BY FirstLoad DEF EndLoad, StateInd, Busy, Keeps
<1>2. \A m \in Loads : loads'[m] = IF m = l THEN Idle ELSE loads[m]
  BY <1>1 DEF StateInd
<1>3. StateInd'
  <2>1. loads' \in [Loads -> LoadState]
    BY <1>1 DEF StateInd, LoadState, Idle
  <2>2. call' \in [Caller -> {"idle", "written", "refused", "waiting", "answered"}]
    BY <1>1 DEF StateInd
  <2>3. /\ phase' \in {"loading", "arming", "ready"} /\ watching => phase' = "ready"
        /\ phase' = "loading" <=> loads'[0].stage # "idle"
        /\ phase' = "loading" => \A m \in Busy' : m = 0
    BY <1>1, <1>2, FirstLoad DEF StateInd, Busy, Idle
  <2>4. \A k \in Caller : call'[k] = "waiting" <=> loads'[k].stage # "idle"
    BY <1>1, <1>2, FirstLoad DEF StateInd, Idle
  <2>5. ~ overlapped => \A i, m \in Busy' : i = m
    BY <1>2 DEF StateInd, Busy, Idle
  <2>6. \A m \in Loads : loads'[m].stage = "import" =>
           loads'[m].todo # {} /\ \A e \in loads'[m].got : e[1] \notin loads'[m].todo
    BY <1>2 DEF StateInd, Idle
  <2> QED BY <1>1, <2>1, <2>2, <2>3, <2>4, <2>5, <2>6 DEF StateInd
<1>4. Counts'
  <2>1. Begun' = Begun
    BY <1>1 DEF Begun, StateInd
  <2> QED BY <2>1 DEF Counts
<1>5. CurrentInd'
  <2> SUFFICES ASSUME Unchanged', ~ overlapped' PROVE CurrentInd'
    BY DEF CurrentInd
  <2>1. Unchanged /\ ~ overlapped
    BY <1>1 DEF Unchanged
  <2>2. \A m \in Loads : loads'[m].stage = "idle"
    BY <1>2, <2>1 DEF StateInd, Busy, Idle
  <2> QED BY <1>1, <2>1, <2>2 DEF CurrentInd, Busy
<1>6. StandingInd'
  <2>1. \A k \in standing : wrote[k][2] # None => cache'[wrote[k][1]] \in {None, wrote[k][2]}
    BY DEF Keeps
  <2> QED BY <1>1, <1>2, <2>1, FirstLoad DEF StandingInd, StateInd, Idle
<1> QED BY <1>3, <1>4, <1>5, <1>6

(* A load goes on: it has listed the files, or read one more.              *)
LEMMA LoadGoesOn ==
    ASSUME LoaderInd, NEW l \in Loads, loads[l].stage # "idle",
           NEW todo, NEW got, todo # {}, Accurate(l, todo, got), Keeps,
           loads' = [loads EXCEPT ![l] = Importing(todo, got)],
           UNCHANGED <<loaded, phase, call, disk, watching, timer, closed, wrote, standing,
                       fires, edits, overlapped, missed>>
    PROVE  LoaderInd'
<1> USE DEF LoaderInd, Accurate
<1>1. \A m \in Loads : loads'[m] = IF m = l THEN Importing(todo, got) ELSE loads[m]
  BY DEF StateInd
<1>2. /\ Importing(todo, got).stage = "import" /\ Importing(todo, got).todo = todo
      /\ Importing(todo, got).got = got /\ Importing(todo, got) \in LoadState
  BY DEF Importing, LoadState
<1>3. Busy' = Busy /\ \A m \in Loads : loads'[m].stage = "idle" <=> loads[m].stage = "idle"
  BY <1>1, <1>2 DEF Busy
<1>4. StateInd'
  <2>1. loads' \in [Loads -> LoadState]
    BY <1>2 DEF StateInd
  <2>2. phase = "loading" <=> loads'[0].stage # "idle"
    BY <1>3, FirstLoad DEF StateInd
  <2>3. \A k \in Caller : call[k] = "waiting" <=> loads'[k].stage # "idle"
    BY <1>3, FirstLoad DEF StateInd
  <2>4. \A m \in Loads : loads'[m].stage = "import" =>
           loads'[m].todo # {} /\ \A e \in loads'[m].got : e[1] \notin loads'[m].todo
    BY <1>1, <1>2 DEF StateInd
  <2>5. cache' \in [Path -> (Content \ Broken) \cup {None}]
    BY DEF Keeps
  <2> QED BY <1>3, <2>1, <2>2, <2>3, <2>4, <2>5 DEF StateInd
<1>5. Counts'
  BY DEF Counts, Begun
<1>6. CurrentInd'
  <2> SUFFICES ASSUME Unchanged, ~ overlapped
               PROVE  /\ Busy # {}
                      /\ \A m \in Loads : loads'[m].stage = "import" =>
                            /\ \A f \in loads'[m].todo : disk[f] # None
                            /\ loads'[m].got = {e \in Served : e[1] \notin loads'[m].todo}
    BY <1>3 DEF CurrentInd, Unchanged, Keeps
  <2>1. l \in Busy
    BY DEF Busy
  <2>2. ASSUME NEW m \in Loads, loads'[m].stage = "import"
        PROVE  /\ \A f \in loads'[m].todo : disk[f] # None
               /\ loads'[m].got = {e \in Served : e[1] \notin loads'[m].todo}
    <3>1. CASE m = l
      BY <1>1, <1>2, <3>1
    <3>2. CASE m # l
      BY <1>1, <2>2, <3>2 DEF CurrentInd
    <3> QED BY <3>1, <3>2
  <2> QED BY <2>1, <2>2
<1>7. StandingInd'
  <2> SUFFICES ASSUME NEW k \in standing
               PROVE  /\ disk[wrote[k][1]] = wrote[k][2]
                      /\ wrote[k][2] # None => cache'[wrote[k][1]] \in {None, wrote[k][2]}
                      /\ call[k] \in {"written", "waiting", "answered"}
                      /\ loads'[k].stage = "import" =>
                            IF wrote[k][1] \in loads'[k].todo THEN wrote[k][2] # None
                            ELSE Entries(loads'[k].got, wrote[k][1])
                                    = {wrote[k]} \cap (File \X Content)
    BY DEF StandingInd, Entries
  <2>1. k \in Loads
    BY FirstLoad DEF StateInd
  <2>2. CASE k = l
    BY <1>1, <1>2, <2>1, <2>2 DEF StandingInd, Keeps
  <2>3. CASE k # l
    BY <1>1, <2>1, <2>3 DEF StandingInd, Keeps
  <2> QED BY <2>2, <2>3
<1> QED BY <1>4, <1>5, <1>6, <1>7

(* A load begins, the watcher's or a client's: nothing has changed since.  *)
LEMMA LoadBegins ==
    ASSUME LoaderInd, NEW l \in Loads, l # 0, BeginLoad(l), phase = "ready",
           UNCHANGED <<disk, cache, loaded, phase, watching, closed, wrote, standing>>,
           timer' = FALSE, Counts',
           \/ l \notin Caller /\ call' = call
           \/ /\ l \in Caller /\ call[l] \in {"idle", "written"}
              /\ call' = [call EXCEPT ![l] = "waiting"]
    PROVE  LoaderInd'
<1> USE DEF LoaderInd
<1>1. /\ loads' = [loads EXCEPT ![l] = Listing] /\ Listing \in LoadState
      /\ Listing.stage = "list" /\ overlapped' = (Busy # {}) /\ missed' = FALSE
  BY DEF BeginLoad, Listing, LoadState
<1>2. \A m \in Loads : loads'[m] = IF m = l THEN Listing ELSE loads[m]
  BY <1>1 DEF StateInd
<1>3. StateInd'
  <2>1. loads' \in [Loads -> LoadState]
    BY <1>1 DEF StateInd
  <2>2. call' \in [Caller -> {"idle", "written", "refused", "waiting", "answered"}]
    BY DEF StateInd
  <2>3. loads'[0] = loads[0] /\ l \in Busy'
    BY <1>1, <1>2, FirstLoad DEF Busy
  <2>4. \A k \in Caller : call'[k] = "waiting" <=> loads'[k].stage # "idle"
    BY <1>1, <1>2, FirstLoad DEF StateInd
  <2>5. ~ overlapped' => \A i, m \in Busy' : i = m
    BY <1>1, <1>2 DEF Busy
  <2>6. \A m \in Loads : loads'[m].stage = "import" =>
           loads'[m].todo # {} /\ \A e \in loads'[m].got : e[1] \notin loads'[m].todo
    BY <1>1, <1>2 DEF StateInd
  <2> QED BY <1>1, <2>1, <2>2, <2>3, <2>4, <2>5, <2>6 DEF StateInd
<1>4. CurrentInd'
  <2>1. l \in Busy'
    BY <1>1, <1>2 DEF Busy
  <2>2. ~ overlapped' => \A m \in Loads : loads'[m].stage # "import"
    BY <1>1, <1>2 DEF Busy
  <2> QED BY <2>1, <2>2 DEF CurrentInd
<1>5. StandingInd'
  <2> SUFFICES ASSUME NEW k \in standing
               PROVE  /\ disk[wrote[k][1]] = wrote[k][2]
                      /\ wrote[k][2] # None => cache[wrote[k][1]] \in {None, wrote[k][2]}
                      /\ call'[k] \in {"written", "waiting", "answered"}
                      /\ loads'[k].stage = "import" =>
                            /\ loads[k].stage = "import"
                            /\ loads'[k] = loads[k]
    BY DEF StandingInd, Entries
  <2> QED BY <1>1, <1>2, FirstLoad DEF StandingInd, StateInd
<1> QED BY <1>3, <1>4, <1>5

(* The files are listed.                                                   *)
LEMMA ListStep ==
    ASSUME LoaderInd, NEW l \in Loads, List(l)
    PROVE  LoaderInd'
<1> DEFINE files == {f \in File : disk[f] # None}
<1>1. /\ loads[l].stage = "list"
      /\ UNCHANGED <<disk, cache, watching, timer, closed, wrote, standing, fires, edits,
                     overlapped, missed>>
  BY DEF List
<1>k. Keeps
  BY <1>1 DEF Keeps, Served, LoaderInd, StateInd, StandingInd
<1>2. CASE files = {}
  <2>1. EndLoad(l, {})
    BY <1>2 DEF List
  <2>2. Served = {}
    BY <1>2 DEF Served
  <2> QED BY <1>1, <1>k, <2>1, <2>2, LoadEnds
<1>3. CASE files # {}
  <2>1. /\ loads' = [loads EXCEPT ![l] = Importing(files, {})]
        /\ UNCHANGED <<loaded, phase, call>>
    BY <1>3 DEF List
  <2>2. l \in standing /\ wrote[l][1] \notin files => wrote[l] \notin File \X Content
    BY LoaderAssumption DEF LoaderInd, StandingInd
  <2>3. Accurate(l, files, {})
    <3>1. {e \in Served : e[1] \notin files} = {}
      BY DEF Served
    <3>2. l \in standing =>
             IF wrote[l][1] \in files THEN wrote[l][2] # None
             ELSE Entries({}, wrote[l][1]) = {wrote[l]} \cap (File \X Content)
      BY <2>2 DEF LoaderInd, StandingInd, Entries
    <3> QED BY <3>1, <3>2 DEF Accurate
  <2> HIDE DEF files
  <2> QED BY <1>1, <1>k, <1>3, <2>1, <2>3, LoadGoesOn
<1> QED BY <1>2, <1>3

(* What an import gives is the entry that is served, if the file is there, *)
(* and some content in any case.                                           *)
LEMMA FoundIsServed ==
    ASSUME LoaderInd, NEW f \in File, NEW c \in Found(f)
    PROVE  /\ c \in Content
           /\ disk[f] # None => c = IF cache[f] # None THEN cache[f] ELSE disk[f]
<1>1. /\ f \in Path /\ disk[f] \in Content \cup {None}
      /\ cache[f] \in (Content \ Broken) \cup {None}
  BY DEF LoaderInd, StateInd, Path
<1> QED BY <1>1, LoaderAssumption DEF Found

(* The module it keeps, if it does, serves what the file did before.       *)
LEMMA ImportKeeps ==
    ASSUME LoaderInd, NEW f \in File, NEW c \in Found(f), UNCHANGED <<disk, wrote, standing>>,
           cache' = IF c \in Broken THEN cache ELSE [cache EXCEPT ![f] = c]
    PROVE  Keeps
<1>1. /\ f \in Path /\ cache \in [Path -> (Content \ Broken) \cup {None}]
      /\ c \in Content /\ (disk[f] # None => c = IF cache[f] # None THEN cache[f] ELSE disk[f])
  BY FoundIsServed DEF LoaderInd, StateInd, Path
<1>2. /\ cache' \in [Path -> (Content \ Broken) \cup {None}]
      /\ \A g \in Path : cache'[g] = IF g = f /\ c \notin Broken THEN c ELSE cache[g]
  BY <1>1
<1>3. Served' = Served
  <2>1. \A g \in File : disk[g] # None =>
           (IF cache'[g] # None THEN cache'[g] ELSE disk[g])
              = (IF cache[g] # None THEN cache[g] ELSE disk[g])
    BY <1>1, <1>2 DEF Path
  <2> QED BY <2>1 DEF Served
<1>4. ASSUME NEW k \in standing, wrote[k][2] # None
      PROVE  cache'[wrote[k][1]] \in {None, wrote[k][2]}
  <2>1. /\ disk[wrote[k][1]] = wrote[k][2] /\ cache[wrote[k][1]] \in {None, wrote[k][2]}
    BY <1>4 DEF LoaderInd, StandingInd
  <2>2. CASE wrote[k][1] = f
    BY <1>1, <1>2, <1>4, <2>1, <2>2
  <2>3. CASE wrote[k][1] # f
    <3>1. cache'[wrote[k][1]] = cache[wrote[k][1]]
      BY <1>1, <2>3
    <3> QED BY <2>1, <3>1
  <2> QED BY <2>2, <2>3
<1> QED BY <1>2, <1>3, <1>4 DEF Keeps

(* A file is read: what has then been got of it, and of the others.        *)
LEMMA ImportGets ==
    ASSUME LoaderInd, NEW l \in Loads, loads[l].stage = "import",
           NEW f, f = First(loads[l].todo), NEW c \in Found(f)
    PROVE  /\ f \in loads[l].todo /\ f \in File
           /\ Accurate(l, loads[l].todo \ {f}, loads[l].got \cup {<<f, c>>})
<1> DEFINE rest == loads[l].todo \ {f}
           got == loads[l].got \cup {<<f, c>>}
<1>1. /\ loads[l].todo \in SUBSET File /\ loads[l].todo # {}
      /\ loads[l].got \in SUBSET (File \X Content)
      /\ \A e \in loads[l].got : e[1] \notin loads[l].todo
  BY DEF LoaderInd, StateInd, LoadState
<1>2. f \in loads[l].todo /\ f \in File
  BY <1>1, FirstIsOne
<1>3. c \in Content /\ (disk[f] # None => c = IF cache[f] # None THEN cache[f] ELSE disk[f])
  BY <1>2, FoundIsServed
<1>4. /\ rest \in SUBSET File /\ got \in SUBSET (File \X Content)
      /\ \A e \in got : e[1] \notin rest
  BY <1>1, <1>2, <1>3
<1>5. ASSUME Unchanged, ~ overlapped
      PROVE  /\ \A g \in rest : disk[g] # None
             /\ got = {e \in Served : e[1] \notin rest}
  <2>1. /\ \A g \in loads[l].todo : disk[g] # None
        /\ loads[l].got = {e \in Served : e[1] \notin loads[l].todo}
    BY <1>5 DEF LoaderInd, CurrentInd
  <2>2. <<f, c>> \in Served
    BY <1>2, <1>3, <2>1 DEF Served
  <2>3. \A e \in Served : e[1] = f => e = <<f, c>>
    BY <1>2, <1>3, <2>1 DEF Served
  <2> QED BY <1>2, <2>1, <2>2, <2>3
<1>6. ASSUME l \in standing
      PROVE  IF wrote[l][1] \in rest THEN wrote[l][2] # None
             ELSE Entries(got, wrote[l][1]) = {wrote[l]} \cap (File \X Content)
  <2> DEFINE p == wrote[l][1]
  <2>1. /\ disk[p] = wrote[l][2] /\ wrote[l] = <<p, wrote[l][2]>>
        /\ wrote[l][2] # None => cache[p] \in {None, wrote[l][2]}
        /\ IF p \in loads[l].todo THEN wrote[l][2] # None
           ELSE Entries(loads[l].got, p) = {wrote[l]} \cap (File \X Content)
    BY <1>6 DEF LoaderInd, StandingInd, StateInd
  <2>2. CASE p \in rest
    BY <2>1, <2>2
  <2>3. CASE p = f
    <3>1. c = wrote[l][2] /\ wrote[l] = <<f, c>>
      BY <1>2, <1>3, <2>1, <2>3
    <3>2. Entries(got, f) = {<<f, c>>}
      BY <1>1, <1>2 DEF Entries
    <3> QED BY <1>2, <1>3, <2>3, <3>1, <3>2
  <2>4. CASE p \notin loads[l].todo
    <3>1. p # f
      BY <1>2, <2>4
    <3>2. Entries(got, p) = Entries(loads[l].got, p)
      BY <3>1 DEF Entries
    <3> QED BY <2>1, <2>4, <3>2
  <2> QED BY <2>2, <2>3, <2>4
<1> QED BY <1>2, <1>4, <1>5, <1>6 DEF Accurate

(* A file is read; after the last one the load ends.                       *)
LEMMA ImportStep ==
    ASSUME LoaderInd, NEW l \in Loads, Import(l)
    PROVE  LoaderInd'
<1> DEFINE f == First(loads[l].todo)
           rest == loads[l].todo \ {f}
<1>1. PICK c \in Found(f) :
         /\ cache' = IF c \in Broken THEN cache ELSE [cache EXCEPT ![f] = c]
         /\ IF rest = {} THEN EndLoad(l, loads[l].got \cup {<<f, c>>})
            ELSE /\ loads' = [loads EXCEPT ![l] = Importing(rest, loads[l].got \cup {<<f, c>>})]
                 /\ UNCHANGED <<loaded, phase, call>>
  BY DEF Import
<1>2. /\ loads[l].stage = "import"
      /\ UNCHANGED <<disk, watching, timer, closed, wrote, standing, fires, edits, overlapped, missed>>
  BY DEF Import
<1> DEFINE got == loads[l].got \cup {<<f, c>>}
<1>3. f \in File /\ Accurate(l, rest, got)
  BY <1>2, ImportGets
<1>k. Keeps
  BY <1>1, <1>2, <1>3, ImportKeeps
<1>4. IF rest = {} THEN EndLoad(l, got)
      ELSE /\ loads' = [loads EXCEPT ![l] = Importing(rest, got)]
           /\ UNCHANGED <<loaded, phase, call>>
  BY <1>1
<1> HIDE DEF f, rest, got
<1>5. CASE rest = {}
  <2>1. {e \in Served : e[1] \notin rest} = Served
    BY <1>5
  <2>2. got \in SUBSET (File \X Content) /\ (Unchanged /\ ~ overlapped => got = Served)
    BY <1>3, <1>5, <2>1 DEF Accurate
  <2> QED BY <1>2, <1>k, <1>4, <1>5, <2>2, LoadEnds
<1>6. CASE rest # {}
  BY <1>2, <1>k, <1>3, <1>4, <1>6, LoadGoesOn
<1> QED BY <1>5, <1>6

-----------------------------------------------------------------------------
(* Changes and the watcher. *)

(* A file changes: the timer starts, or the change is missed; what others  *)
(* wrote to it stands no longer.                                           *)
LEMMA ChangeStep ==
    ASSUME LoaderInd, NEW p \in Path, NEW c \in Content \cup {None},
           NEW writers \in SUBSET Caller, NEW clients \in SUBSET writers, Change(p, c, clients),
           UNCHANGED <<cache, loaded, phase, watching, closed, loads, overlapped>>, Counts',
           call' \in [Caller -> {"idle", "written", "refused", "waiting", "answered"}],
           wrote' \in [Caller -> (Path \cup {None}) \X (Content \cup {None})],
           \A k \in writers : call[k] = "idle" /\ call'[k] = "written" /\ wrote'[k] = <<p, c>>,
           clients # {} => c = None \/ cache[p] = None,
           \A k \in Caller \ writers : call'[k] = call[k] /\ wrote'[k] = wrote[k]
    PROVE  LoaderInd'
<1> USE DEF LoaderInd
<1>1. /\ disk' = [disk EXCEPT ![p] = c]
      /\ timer' = (timer \/ (watching /\ p \in File))
      /\ missed' = (missed \/ (~ watching /\ p \in File))
      /\ standing' = clients \cup {k \in standing : wrote[k][1] # p}
  BY DEF Change
<1>2. disk' \in [Path -> Content \cup {None}] /\ \A q \in Path : disk'[q] = IF q = p THEN c ELSE disk[q]
  BY <1>1 DEF StateInd
<1>3. StateInd'
  <2>1. \A k \in Caller : call'[k] = "waiting" <=> loads[k].stage # "idle"
    BY DEF StateInd
  <2>2. standing' \subseteq Caller
    BY <1>1 DEF StateInd
  <2> QED BY <1>1, <1>2, <2>1, <2>2 DEF StateInd, Busy
<1>4. CurrentInd'
  <2> SUFFICES ASSUME Unchanged', ~ overlapped PROVE CurrentInd'
    BY DEF CurrentInd
  <2>1. Unchanged /\ p \notin File
    BY <1>1 DEF Unchanged, StateInd
  <2>2. \A f \in File : disk'[f] = disk[f]
    BY <1>2, <2>1 DEF Path
  <2>3. Served' = Served
    BY <2>2 DEF Served
  <2>4. \A l \in Loads : loads[l].todo \subseteq File
    BY DEF StateInd, LoadState
  <2> QED BY <2>1, <2>2, <2>3, <2>4 DEF CurrentInd, Busy
<1>5. StandingInd'
  <2> SUFFICES ASSUME NEW k \in standing'
               PROVE  /\ disk'[wrote'[k][1]] = wrote'[k][2]
                      /\ wrote'[k][2] # None => cache[wrote'[k][1]] \in {None, wrote'[k][2]}
                      /\ call'[k] \in {"written", "waiting", "answered"}
                      /\ loads[k].stage = "import" =>
                            IF wrote'[k][1] \in loads[k].todo THEN wrote'[k][2] # None
                            ELSE Entries(loads[k].got, wrote'[k][1])
                                    = {wrote'[k]} \cap (File \X Content)
    BY DEF StandingInd, Entries
  <2>1. CASE k \in clients
    <3>1. loads[k].stage = "idle" /\ wrote'[k] = <<p, c>> /\ call'[k] = "written"
      BY <2>1 DEF StateInd
    <3> QED BY <1>2, <2>1, <3>1
  <2>2. CASE k \notin clients
    <3>a. k \in standing /\ wrote[k][1] # p /\ k \in Caller /\ call[k] # "idle"
      BY <1>1, <2>2 DEF StateInd, StandingInd
    <3>1. /\ k \in standing /\ wrote[k][1] # p /\ k \in Caller
          /\ wrote'[k] = wrote[k] /\ call'[k] = call[k]
      BY <3>a
    <3>2. disk'[wrote[k][1]] = disk[wrote[k][1]]
      BY <1>1, <3>1 DEF StateInd
    <3> QED BY <3>1, <3>2 DEF StandingInd
  <2> QED BY <2>1, <2>2
<1> QED BY <1>3, <1>4, <1>5

(* The user changes a file.                                                *)
LEMMA EditStep ==
    ASSUME LoaderInd, NEW p \in Path, NEW c \in Content \cup {None}, Edit(p, c)
    PROVE  LoaderInd'
<1>1. /\ Change(p, c, {}) /\ edits' = edits + 1 /\ edits < MaxEdits
      /\ UNCHANGED <<cache, loaded, phase, watching, closed, loads, call, wrote, fires, overlapped>>
  BY DEF Edit
<1>2. Counts'
  <2>1. Begun' = Begun
    BY <1>1 DEF Begun
  <2> QED BY <1>1, <2>1, BegunFit, LoaderAssumption DEF LoaderInd, Counts, Change, StateInd
<1>3. /\ call' \in [Caller -> {"idle", "written", "refused", "waiting", "answered"}]
      /\ wrote' \in [Caller -> (Path \cup {None}) \X (Content \cup {None})]
      /\ \A j \in {} : call[j] = "idle" /\ call'[j] = "written" /\ wrote'[j] = <<p, c>>
      /\ \A j \in Caller \ {} : call'[j] = call[j] /\ wrote'[j] = wrote[j]
  BY <1>1 DEF LoaderInd, StateInd
<1>4. {} \in SUBSET Caller /\ {} \in SUBSET {}
  OBVIOUS
<1> QED BY <1>1, <1>2, <1>3, <1>4, ChangeStep

(* A client writes or deletes a file, or is refused.                       *)
LEMMA WriteStep ==
    ASSUME LoaderInd, NEW k \in Caller, NEW p \in Path, NEW c \in Content \cup {None},
           NEW overwrite \in BOOLEAN, Write(k, p, c, overwrite)
    PROVE  LoaderInd'
<1>1. /\ call[k] = "idle" /\ call \in [Caller -> {"idle", "written", "refused", "waiting", "answered"}]
      /\ UNCHANGED <<cache, loaded, phase, watching, closed, loads, fires, edits, overlapped>>
  BY DEF Write, LoaderInd, StateInd
<1>2. CASE UNCHANGED <<disk, timer, missed, standing, wrote>> /\ call' = [call EXCEPT ![k] = "refused"]
  <2>1. StateInd'
    BY <1>1, <1>2 DEF LoaderInd, StateInd, Busy
  <2>2. Counts'
    <3>1. Begun' = Begun
      BY <1>1, <1>2 DEF Begun
    <3> QED BY <1>1, <1>2, <3>1 DEF LoaderInd, Counts
  <2>3. CurrentInd'
    BY <1>1, <1>2 DEF LoaderInd, CurrentInd, Unchanged, Served, Busy
  <2>4. StandingInd'
    BY <1>1, <1>2 DEF LoaderInd, StandingInd, Entries
  <2> QED BY <2>1, <2>2, <2>3, <2>4 DEF LoaderInd
<1>3. CASE /\ call' = [call EXCEPT ![k] = "written"]
           /\ wrote' = [wrote EXCEPT ![k] = <<p, c>>]
           /\ Change(p, c, IF c = None \/ cache[p] = None THEN {k} ELSE {})
  <2> DEFINE writers == {k}
             clients == IF c = None \/ cache[p] = None THEN {k} ELSE {}
  <2>1. Counts'
    <3>1. k \notin Begun /\ Begun' = Begun \cup {k}
      BY <1>1, <1>3 DEF Begun
    <3>2. Cardinality(Begun') = Cardinality(Begun) + 1 /\ Cardinality(Begun) \in Nat
      BY <3>1, OneBegins, BegunFit
    <3> QED BY <1>1, <1>3, <3>2 DEF LoaderInd, Counts, Change, StateInd
  <2>2. /\ call' \in [Caller -> {"idle", "written", "refused", "waiting", "answered"}]
        /\ wrote' \in [Caller -> (Path \cup {None}) \X (Content \cup {None})]
        /\ \A j \in writers : call[j] = "idle" /\ call'[j] = "written" /\ wrote'[j] = <<p, c>>
        /\ \A j \in Caller \ writers : call'[j] = call[j] /\ wrote'[j] = wrote[j]
    BY <1>1, <1>3 DEF LoaderInd, StateInd
  <2>3. /\ writers \in SUBSET Caller /\ clients \in SUBSET writers
        /\ clients # {} => c = None \/ cache[p] = None
    OBVIOUS
  <2>4. Change(p, c, clients)
    BY <1>3
  <2>5. UNCHANGED <<cache, loaded, phase, watching, closed, loads, overlapped>>
    BY <1>1
  <2> HIDE DEF writers, clients
  <2> QED BY <2>5, <2>1, <2>2, <2>3, <2>4, ChangeStep
<1> QED BY <1>2, <1>3 DEF Write

(* The timer fires.                                                        *)
LEMMA FireStep ==
    ASSUME LoaderInd, Fire
    PROVE  LoaderInd'
<1>1. /\ timer /\ timer' = FALSE /\ fires' = fires + 1 /\ BeginLoad(fires + 1)
      /\ UNCHANGED <<disk, cache, loaded, phase, watching, closed, call, wrote, standing, edits>>
  BY DEF Fire
<1>2. fires + 1 \in Loads /\ fires + 1 \notin Caller /\ fires + 1 # 0 /\ phase = "ready"
  BY <1>1, FireHasLoad DEF LoaderInd, StateInd
<1>3. Counts'
  <2>1. Begun' = Begun
    BY <1>1 DEF Begun
  <2> QED BY <1>1, <2>1, BegunFit DEF LoaderInd, Counts
<1> QED BY <1>1, <1>2, <1>3, LoadBegins

(* A client asks for a reload.                                             *)
LEMMA ReloadStep ==
    ASSUME LoaderInd, NEW k \in Caller, Reload(k)
    PROVE  LoaderInd'
<1>1. /\ phase = "ready" /\ call[k] \in {"idle", "written"} /\ timer' = FALSE
      /\ call' = [call EXCEPT ![k] = "waiting"] /\ BeginLoad(k)
      /\ UNCHANGED <<disk, cache, loaded, phase, watching, closed, wrote, standing, fires, edits>>
  BY DEF Reload
<1>2. k \in Loads /\ k # 0
  BY FirstLoad
<1>3. Counts'
  <2>1. /\ Cardinality(Begun) \in Nat /\ Cardinality(Begun') \in Nat
        /\ Cardinality(Begun) <= Cardinality(Begun')
    <3>1. CASE call[k] = "idle"
      <4>1. k \notin Begun /\ Begun' = Begun \cup {k}
        BY <1>1, <3>1 DEF Begun, LoaderInd, StateInd
      <4> QED BY <4>1, OneBegins, BegunFit
    <3>2. CASE call[k] = "written"
      <4>1. Begun' = Begun
        BY <1>1, <3>2 DEF Begun, LoaderInd, StateInd
      <4> QED BY <4>1, BegunFit
    <3> QED BY <1>1, <3>1, <3>2
  <2> QED BY <1>1, <2>1, LoaderAssumption DEF LoaderInd, Counts, StateInd
<1> QED BY <1>1, <1>2, <1>3, LoadBegins

(* The watcher starts, fails or is stopped.                                *)
LEMMA WatcherStep ==
    ASSUME LoaderInd, StartWatching \/ WatcherFails \/ Close
    PROVE  LoaderInd'
<1> USE DEF LoaderInd
<1>1. /\ UNCHANGED <<disk, cache, loads, call, wrote, standing, fires, edits, overlapped, missed>>
      /\ watching' \in BOOLEAN /\ closed' \in BOOLEAN
      /\ timer' = timer \/ timer' = FALSE
      /\ loaded' = loaded \/ loaded' = {}
      /\ phase' = phase \/ (phase = "arming" /\ phase' = "ready")
  BY DEF StartWatching, WatcherFails, Close, StopWatching, StateInd
<1>a. /\ phase' = "ready" /\ (timer' => watching')
      /\ watching' => loaded' = loaded /\ timer' = timer /\ phase = "arming"
  <2>1. CASE StartWatching
    BY <2>1 DEF StartWatching, StateInd
  <2>2. CASE WatcherFails
    BY <2>2 DEF WatcherFails, StopWatching, StateInd
  <2>3. CASE Close
    BY <2>3 DEF Close, StopWatching, StateInd
  <2> QED BY <2>1, <2>2, <2>3
<1>2. StateInd'
  <2>1. timer' \in BOOLEAN
    BY <1>1 DEF StateInd
  <2> QED BY <1>1, <1>a, <2>1 DEF StateInd, Busy
<1>3. Counts'
  <2>1. Begun' = Begun
    BY <1>1 DEF Begun
  <2> QED BY <1>1, <2>1, BegunFit DEF Counts, StateInd
<1>4. CurrentInd'
  <2> SUFFICES ASSUME Unchanged' PROVE CurrentInd'
    BY DEF CurrentInd
  <2>1. Unchanged /\ loaded' = loaded
    BY <1>1, <1>a DEF Unchanged
  <2> QED BY <1>1, <2>1 DEF CurrentInd, Served, Busy
<1>5. StandingInd'
  BY <1>1 DEF StandingInd, Entries
<1> QED BY <1>2, <1>3, <1>4, <1>5

-----------------------------------------------------------------------------
(* Theorems. *)

(* The invariant holds at first.                                           *)
LEMMA LoaderStarts == Init => LoaderInd
<1> SUFFICES ASSUME Init PROVE LoaderInd
  OBVIOUS
<1>1. \A l \in Loads : loads[l] = IF l = 0 THEN Listing ELSE Idle
  BY DEF Init
<1>2. Listing \in LoadState /\ Idle \in LoadState /\ Listing.stage = "list" /\ Idle.stage = "idle"
  BY DEF Listing, Idle, LoadState
<1>3. StateInd
  BY <1>1, <1>2, FirstLoad DEF Init, StateInd, Busy
<1>4. Counts
  <2>1. Begun = {}
    BY DEF Init, Begun
  <2> QED BY <2>1, FS_EmptySet, LoaderAssumption DEF Init, Counts
<1>5. CurrentInd
  BY <1>1, <1>2, FirstLoad DEF Init, CurrentInd, Busy
<1>6. StandingInd
  BY DEF Init, StandingInd
<1> QED BY <1>3, <1>4, <1>5, <1>6 DEF LoaderInd

(* And every step keeps it.                                                *)
LEMMA LoaderSteps == LoaderInd /\ [Next]_vars => LoaderInd'
<1> SUFFICES ASSUME LoaderInd, [Next]_vars PROVE LoaderInd'
  OBVIOUS
<1>1. CASE LoadStep
  BY <1>1, ListStep, ImportStep DEF LoadStep
<1>2. CASE StartWatching \/ Fire \/ WatcherFails \/ Close
  BY <1>2, WatcherStep, FireStep
<1>3. CASE \E p \in Path, c \in Content \cup {None} : Edit(p, c)
  BY <1>3, EditStep
<1>4. ASSUME NEW k \in Caller, Reload(k) PROVE LoaderInd'
  BY <1>4, ReloadStep
<1>5. ASSUME NEW k \in Caller, NEW p \in Path, NEW c \in Content \cup {None},
             NEW overwrite \in BOOLEAN, Write(k, p, c, overwrite)
      PROVE LoaderInd'
  BY <1>5, WriteStep
<1>6. CASE UNCHANGED vars
  <2> USE <1>6 DEF vars
  <2>1. StateInd'
    BY DEF LoaderInd, StateInd, Busy
  <2>2. Counts'
    BY DEF LoaderInd, Counts, Begun
  <2>3. CurrentInd'
    BY DEF LoaderInd, CurrentInd, Unchanged, Served, Busy
  <2>4. StandingInd'
    BY DEF LoaderInd, StandingInd, Entries
  <2> QED BY <2>1, <2>2, <2>3, <2>4 DEF LoaderInd
<1> QED BY <1>1, <1>2, <1>3, <1>4, <1>5, <1>6 DEF Next

(* What loads have got and have still to get is always what it should be.  *)
THEOREM LoadsAreTrue == Spec => []LoaderInd
BY LoaderStarts, LoaderSteps, PTL DEF Spec

(* When nothing is under way, what is loaded are the files of the          *)
(* directory, each as it was first evaluated.                              *)
THEOREM LoaderInvariant == Spec => []LoaderInv
<1>1. LoaderInd => LoaderInv
  <2> SUFFICES ASSUME LoaderInd PROVE LoaderInv
    OBVIOUS
  <2>1. fires \in Loads
    BY BegunFit, LoaderAssumption DEF LoaderInd, Counts, Loads
  <2>2. TypeOK
    BY <2>1 DEF LoaderInd, StateInd, Counts, LoadState, TypeOK
  <2>3. QuietIsServed
    BY DEF LoaderInd, CurrentInd, Unchanged, QuietIsServed
  <2> QED BY <2>2, <2>3 DEF LoaderInv
<1> QED BY <1>1, LoadsAreTrue, PTL

(* A client that is told its file was written and reloaded finds that      *)
(* done, if no module of it was kept before and nobody has touched the     *)
(* file; however many other loads there are, whatever they read and in     *)
(* whatever order they end.                                                *)
THEOREM WritesAreLoaded == Spec => WrittenIsLoaded
<1> DEFINE Done == \A k \in standing :
             /\ call[k] # "answered" /\ call'[k] = "answered"
             /\ wrote[k][1] \in File
             => {e \in loaded' : e[1] = wrote[k][1]} = {wrote[k]} \cap (File \X Content)
<1>1. LoaderInd /\ [Next]_vars => [Done]_vars
  <2> SUFFICES ASSUME LoaderInd, Next, NEW k \in standing, call[k] # "answered",
                      call'[k] = "answered", wrote[k][1] \in File
               PROVE  Entries(loaded', wrote[k][1]) = {wrote[k]} \cap (File \X Content)
    BY DEF vars, Entries
  <2>1. k \in Caller /\ k \in Loads
    BY FirstLoad DEF LoaderInd, StateInd
  <2>2. PICK l \in Loads : List(l) \/ Import(l)
    <3>1. call'[k] # call[k]
      OBVIOUS
    <3>2. ASSUME NEW j \in Caller, Reload(j) PROVE FALSE
      BY <2>1, <3>2 DEF Reload, LoaderInd, StateInd
    <3>3. ASSUME NEW j \in Caller, NEW p \in Path, NEW c \in Content \cup {None},
                 NEW overwrite \in BOOLEAN, Write(j, p, c, overwrite)
          PROVE  FALSE
      BY <2>1, <3>3 DEF Write, LoaderInd, StateInd
    <3> QED BY <3>1, <3>2, <3>3 DEF Next, LoadStep, StartWatching, Fire, WatcherFails, Close, Edit
  <2>3. \A found : EndLoad(l, found) => l = k /\ loaded' = found
    BY <2>1 DEF EndLoad, LoaderInd, StateInd
  <2>4. CASE List(l)
    <3>1. EndLoad(l, {}) /\ {f \in File : disk[f] # None} = {}
      BY <2>4 DEF List
    <3>2. disk[wrote[k][1]] = wrote[k][2] /\ disk[wrote[k][1]] = None
      BY <3>1 DEF LoaderInd, StandingInd
    <3>3. loaded' = {} /\ wrote[k] \notin File \X Content
      BY <2>3, <3>1, <3>2, LoaderAssumption
    <3> QED BY <3>3 DEF Entries
  <2>5. CASE Import(l)
    <3> DEFINE f == First(loads[l].todo)
               rest == loads[l].todo \ {f}
    <3>1. loads[l].stage = "import"
      BY <2>5 DEF Import
    <3>2. PICK c \in Found(f) :
             rest = {} /\ EndLoad(l, loads[l].got \cup {<<f, c>>})
      BY <2>5 DEF Import
    <3> DEFINE got == loads[l].got \cup {<<f, c>>}
    <3>3. l = k /\ loaded' = got
      BY <2>3, <3>2
    <3>4. Accurate(l, rest, got)
      BY <3>1, ImportGets
    <3> QED BY <3>2, <3>3, <3>4 DEF Accurate
  <2> QED BY <2>2, <2>4, <2>5
<1> QED BY <1>1, LoadsAreTrue, PTL DEF Spec, WrittenIsLoaded
================================================================================
