--------------------------- MODULE InterceptorLoader ---------------------------
(***************************************************************************)
(* The loader of interceptors (interceptor-loader.ts) and those who make   *)
(* it work: the user's editor, the file watcher, `httap interceptors       *)
(* reload', and the tools of the MCP server that write and delete          *)
(* interceptors and then ask for a reload (mcp/server.ts).                 *)
(*                                                                         *)
(* A file exports one interceptor, told apart by what the file says, or    *)
(* none, or it is broken.  A load awaits the directory and then each file  *)
(* in turn; what it found replaces the interceptors in one step.           *)
(*                                                                         *)
(* Two things are external.  The watcher of the operating system reports   *)
(* every change to a file of the directory itself.  jiti, which evaluates  *)
(* the files, keeps each module that was evaluated to its end in the       *)
(* require cache of the process (its option moduleCache, true unless it is *)
(* given; interceptor-loader.ts:167 does not give it), and so does every   *)
(* later instance of it: a file is evaluated again only if it failed.      *)
(***************************************************************************)
EXTENDS Naturals, Sequences, FiniteSets

CONSTANTS
    Files,          \* the names of interceptor files, in alphabetical order
    Nested,         \* names with a directory in them, such as api/mock.ts
    Content,        \* what a file may say
    Broken,         \* contents that cannot be evaluated
    Invalid,        \* contents that can, and export no interceptor
    Caller,         \* clients that ask for reloads, one call each
    MaxEdits,       \* bound: changes by the user
    None

File == {Files[n] : n \in DOMAIN Files}
Path == File \cup Nested

ASSUME LoaderAssumption ==
    /\ Files \in Seq(File) /\ File \cap Nested = {}
    /\ \A m, n \in DOMAIN Files : Files[m] = Files[n] => m = n
    /\ Broken \subseteq Content /\ Broken # {} /\ None \notin Content
    /\ Invalid \subseteq Content \ Broken
    /\ IsFiniteSet(Caller) /\ Caller \cap Nat = {}
    /\ MaxEdits \in Nat

VARIABLES
    disk,           \* of each path what it holds, None if it is not there
    cache,          \* external: of each path the module kept, None if there is none
    loaded,         \* infoEntries: the files of the last load and what each gave
    phase,          \* of createInterceptorLoader: loading, arming, ready
    watching, timer, closed,
    loads,          \* the loads under way
    call,           \* of each client: where its call is
    wrote,          \* the path and content a client wrote, if it did
    standing,       \* history: clients whose write, of a file with no module kept
                    \* or of none at all, nobody has touched since
    fires, edits,   \* counters
    overlapped,     \* history: the last loads were not one at a time
    missed          \* history: a change nobody watched for, and no load since

vars == <<disk, cache, loaded, phase, watching, timer, closed, loads, call, wrote, standing,
          fires, edits, overlapped, missed>>

(* A load is the first one, 0, one the watcher began, or a client's. *)
Loads == 0 .. (MaxEdits + Cardinality(Caller)) \cup Caller
Idle == [stage |-> "idle", todo |-> {}, got |-> {}]
Listing == [stage |-> "list", todo |-> {}, got |-> {}]
Importing(todo, got) == [stage |-> "import", todo |-> todo, got |-> got]
Busy == {l \in Loads : loads[l].stage # "idle"}

(* getInterceptors, in the order of their files. *)
Interceptors == {e \in loaded : e[2] \notin Broken \cup Invalid}

(* The files of the directory and what an import of each gives: the module *)
(* kept, which may be of what the file held before, or what it holds now.  *)
Served == {<<f, IF cache[f] # None THEN cache[f] ELSE disk[f]>> : f \in {g \in File : disk[g] # None}}

-----------------------------------------------------------------------------
(* The directory changes; the watcher hears of its own files only, and its *)
(* timer starts again.                                                     *)
Change(p, c, clients) ==
    /\ disk' = [disk EXCEPT ![p] = c]
    /\ timer' = (timer \/ (watching /\ p \in File))
    /\ missed' = (missed \/ (~ watching /\ p \in File))
    /\ standing' = clients \cup {k \in standing : wrote[k][1] # p}

Edit(p, c) ==
    /\ edits < MaxEdits /\ disk[p] # c
    /\ edits' = edits + 1
    /\ Change(p, c, {})
    /\ UNCHANGED <<cache, loaded, phase, watching, closed, loads, call, wrote, fires, overlapped>>

-----------------------------------------------------------------------------
(* loadAll *)

BeginLoad(l) ==
    /\ loads' = [loads EXCEPT ![l] = Listing]
    /\ overlapped' = (Busy # {})
    /\ missed' = FALSE

EndLoad(l, found) ==
    /\ loaded' = found
    /\ loads' = [loads EXCEPT ![l] = Idle]
    /\ phase' = IF l = 0 THEN "arming" ELSE phase
    /\ call' = IF l \in Caller THEN [call EXCEPT ![l] = "answered"] ELSE call

List(l) ==
    /\ loads[l].stage = "list"
    /\ LET files == {f \in File : disk[f] # None}
       IN  IF files = {}
           THEN EndLoad(l, {})
           ELSE /\ loads' = [loads EXCEPT ![l] = Importing(files, {})]
                /\ UNCHANGED <<loaded, phase, call>>
    /\ UNCHANGED <<disk, cache, watching, timer, closed, wrote, standing, fires, edits,
                   overlapped, missed>>

(* The files are sorted by their names. *)
First(todo) == Files[CHOOSE n \in DOMAIN Files :
    /\ Files[n] \in todo
    /\ \A m \in DOMAIN Files : Files[m] \in todo => n <= m]

(* What an import of a file gives.  A file that is gone since it was       *)
(* listed is like a broken one, unless jiti still finds its module.        *)
Found(f) ==
    IF disk[f] = None THEN Broken \cup ({cache[f]} \ {None})
    ELSE IF cache[f] # None THEN {cache[f]} ELSE {disk[f]}

(* Mutant of Import: a file that fails ends the load. *)
Import_StopsAtBroken(l) ==
    /\ loads[l].stage = "import"
    /\ LET f == First(loads[l].todo)
           rest == loads[l].todo \ {f}
       IN  \E c \in Found(f) :
              /\ cache' = IF c \in Broken THEN cache ELSE [cache EXCEPT ![f] = c]
              /\ IF rest = {} \/ c \in Broken
                 THEN EndLoad(l, loads[l].got \cup {<<f, c>>})
                 ELSE /\ loads' = [loads EXCEPT ![l] = Importing(rest, loads[l].got \cup {<<f, c>>})]
                      /\ UNCHANGED <<loaded, phase, call>>
    /\ UNCHANGED <<disk, watching, timer, closed, wrote, standing, fires, edits, overlapped, missed>>

(* One file is imported, and its module kept if it has one; a file that    *)
(* fails leaves an entry with its error and the others are loaded all the  *)
(* same.                                                                   *)
Import(l) ==
    /\ loads[l].stage = "import"
    /\ LET f == First(loads[l].todo)
           rest == loads[l].todo \ {f}
       IN  \E c \in Found(f) :
              /\ cache' = IF c \in Broken THEN cache ELSE [cache EXCEPT ![f] = c]
              /\ IF rest = {}
                 THEN EndLoad(l, loads[l].got \cup {<<f, c>>})
                 ELSE /\ loads' = [loads EXCEPT ![l] = Importing(rest, loads[l].got \cup {<<f, c>>})]
                      /\ UNCHANGED <<loaded, phase, call>>
    /\ UNCHANGED <<disk, watching, timer, closed, wrote, standing, fires, edits, overlapped, missed>>

-----------------------------------------------------------------------------
(* The watcher, from startWatching on; it may fail to start. *)
StartWatching ==
    /\ phase = "arming"
    /\ phase' = "ready"
    /\ watching' \in BOOLEAN
    /\ UNCHANGED <<disk, cache, loaded, timer, closed, loads, call, wrote, standing, fires, edits,
                   overlapped, missed>>

(* Mutant of Fire: a reload that is under way will do. *)
Fire_Skips ==
    /\ timer
    /\ timer' = FALSE
    /\ IF Busy = {}
       THEN fires' = fires + 1 /\ BeginLoad(fires + 1)
       ELSE UNCHANGED <<fires, loads, overlapped, missed>>
    /\ UNCHANGED <<disk, cache, loaded, phase, watching, closed, call, wrote, standing, edits>>

(* The timer of the debounce. *)
Fire ==
    /\ timer
    /\ timer' = FALSE
    /\ fires' = fires + 1
    /\ BeginLoad(fires + 1)
    /\ UNCHANGED <<disk, cache, loaded, phase, watching, closed, call, wrote, standing, edits>>

StopWatching == watching' = FALSE /\ timer' = FALSE

WatcherFails ==
    /\ watching
    /\ StopWatching
    /\ loaded' = {}
    /\ UNCHANGED <<disk, cache, phase, closed, loads, call, wrote, standing, fires, edits, overlapped, missed>>

Close ==
    /\ phase = "ready" /\ ~ closed
    /\ closed' = TRUE
    /\ StopWatching
    /\ UNCHANGED <<disk, cache, loaded, phase, loads, call, wrote, standing, fires, edits, overlapped, missed>>

-----------------------------------------------------------------------------
(* Clients. *)

(* httap_write_interceptor, and httap_delete_interceptor with nothing for  *)
(* a content: the file first, then the reload.                             *)
Write(k, p, c, overwrite) ==
    /\ phase = "ready" /\ ~ closed /\ call[k] = "idle"
    /\ IF IF c = None THEN disk[p] = None ELSE disk[p] # None /\ ~ overwrite
       THEN /\ call' = [call EXCEPT ![k] = "refused"]
            /\ UNCHANGED <<disk, timer, missed, standing, wrote>>
       ELSE /\ call' = [call EXCEPT ![k] = "written"]
            /\ wrote' = [wrote EXCEPT ![k] = <<p, c>>]
            /\ Change(p, c, IF c = None \/ cache[p] = None THEN {k} ELSE {})
    /\ UNCHANGED <<cache, loaded, phase, watching, closed, loads, fires, edits, overlapped>>

(* Mutant of Reload: the call is answered before its load is done. *)
Reload_AnswersAtOnce(k) ==
    /\ phase = "ready" /\ ~ closed /\ call[k] \in {"idle", "written"}
    /\ timer' = FALSE
    /\ call' = [call EXCEPT ![k] = "answered"]
    /\ BeginLoad(k)
    /\ UNCHANGED <<disk, cache, loaded, phase, watching, closed, wrote, standing, fires, edits>>

(* reload(), for a client that has written or only asks: a load that the   *)
(* watcher has yet to begin is cancelled.                                  *)
Reload(k) ==
    /\ phase = "ready" /\ ~ closed /\ call[k] \in {"idle", "written"}
    /\ timer' = FALSE
    /\ call' = [call EXCEPT ![k] = "waiting"]
    /\ BeginLoad(k)
    /\ UNCHANGED <<disk, cache, loaded, phase, watching, closed, wrote, standing, fires, edits>>

-----------------------------------------------------------------------------
Init ==
    /\ disk \in [Path -> Content \cup {None}]
    /\ \A p \in Nested : disk[p] = None
    /\ cache = [p \in Path |-> None]
    /\ loaded = {}
    /\ phase = "loading"
    /\ watching = FALSE /\ timer = FALSE /\ closed = FALSE
    /\ loads = [l \in Loads |-> IF l = 0 THEN Listing ELSE Idle]
    /\ call = [k \in Caller |-> "idle"]
    /\ wrote = [k \in Caller |-> <<None, None>>]
    /\ standing = {}
    /\ fires = 0 /\ edits = 0
    /\ overlapped = FALSE /\ missed = FALSE

LoadStep == \E l \in Loads : List(l) \/ Import(l)

Next ==
    \/ LoadStep
    \/ StartWatching \/ Fire \/ WatcherFails \/ Close
    \/ \E p \in Path, c \in Content \cup {None} : Edit(p, c)
    \/ \E k \in Caller :
          \/ Reload(k)
          \/ \E p \in Path, c \in Content \cup {None}, overwrite \in BOOLEAN : Write(k, p, c, overwrite)

(* Loads go on, the timer fires, and a client that has written asks for    *)
(* the reload.                                                             *)
Fairness ==
    /\ \A l \in Loads : WF_vars(List(l) \/ Import(l))
    /\ WF_vars(Fire)
    /\ WF_vars(StartWatching)

Spec == Init /\ [][Next]_vars /\ Fairness

-----------------------------------------------------------------------------
(* Properties. *)

(* The shape of the state. *)
TypeOK ==
    /\ disk \in [Path -> Content \cup {None}]
    /\ cache \in [Path -> (Content \ Broken) \cup {None}]
    /\ loaded \subseteq File \X Content
    /\ phase \in {"loading", "arming", "ready"}
    /\ {watching, timer, closed, overlapped, missed} \subseteq BOOLEAN
    /\ loads \in [Loads -> [stage : {"idle", "list", "import"}, todo : SUBSET File,
                            got : SUBSET (File \X Content)]]
    /\ call \in [Caller -> {"idle", "written", "refused", "waiting", "answered"}]
    /\ wrote \in [Caller -> (Path \cup {None}) \X (Content \cup {None})]
    /\ standing \subseteq Caller
    /\ fires \in Loads /\ edits \in 0 .. MaxEdits

(* When nothing is under way, what is loaded are the files the directory   *)
(* has now, no other, each with the first thing it held that could be      *)
(* evaluated, or with its error if it never held any; unless loads         *)
(* overlapped, a change went unwatched, or the watcher is gone.  The       *)
(* comment at interceptor-loader.ts:166 means the files to be as they are  *)
(* now, which is so only of those with no module kept.                     *)
QuietIsServed ==
    phase = "ready" /\ watching /\ ~ timer /\ Busy = {} /\ ~ overlapped /\ ~ missed
        => loaded = Served

LoaderInv == TypeOK /\ QuietIsServed

(* A client that is told its file was written, or deleted, and reloaded    *)
(* finds that done, when the process had kept no module of that name       *)
(* before and nobody has changed that file in between; whatever other      *)
(* loads are under way.  (Who overwrites a file that was loaded gets what  *)
(* it held before; of a file in a directory nothing is loaded.)            *)
WrittenIsLoaded ==
    [][\A k \in standing :
          /\ call[k] # "answered" /\ call'[k] = "answered"
          /\ wrote[k][1] \in File
          => {e \in loaded' : e[1] = wrote[k][1]} = {wrote[k]} \cap (File \X Content)]_vars

(* What is left of "Hot-reloads on file changes" (docs/interceptors.md:    *)
(* 148): once the files stay as they are, new and repaired files come to   *)
(* be loaded and deleted ones not, and that stays so, but for the          *)
(* exceptions above.  A change to a file that was loaded is never seen.    *)
ReloadsSettle == <>[](loaded = Served \/ overlapped \/ missed \/ ~ watching)

=============================================================================
