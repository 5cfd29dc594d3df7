---------------------------- MODULE TilePyramid -----------------------------
(***************************************************************************)
(* make_tile splits an image in pages, resamples each level of the pyramid *)
(* from the finer one, and encodes every page.  The rows of a level are    *)
(* tasks of a thread pool, which hands them to its units in turn; only the *)
(* last row of a level is waited for.  A page is right when it was made of *)
(* every page below it.  The image is Width by Height pages.               *)
(***************************************************************************)
EXTENDS Naturals, Sequences, FiniteSets

CONSTANTS Width, Height,        \* the pages of the image on its finest level
          MaxUnits              \* the most units the pool may have

Ceiling(n) == (n + 1) \div 2

(* level_limit, the finest level's number: two to its power pages are as   *)
(* many as a row or a column has.                                          *)
Powers[n \in 0 .. Width + Height] == IF n = 0 THEN 1 ELSE 2 * Powers[n - 1]
Levels == CHOOSE n \in 0 .. Width + Height :
              /\ Powers[n] >= Width /\ Powers[n] >= Height
              /\ \A m \in 0 .. n - 1 : Powers[m] < Width \/ Powers[m] < Height

(* The size of a level. *)
Wide[level \in 0 .. Levels] == IF level = Levels THEN Width ELSE Ceiling(Wide[level + 1])
High[level \in 0 .. Levels] == IF level = Levels THEN Height ELSE Ceiling(High[level + 1])

Pages(level) == {<<x, y, level>> : x \in 0 .. Wide[level] - 1, y \in 0 .. High[level] - 1}
AllPages == UNION {Pages(level) : level \in 0 .. Levels}

VARIABLES units,        \* how many units the pool has
          index,        \* thread_pool::index
          queue,        \* the tasks of each unit
          doing,        \* the task each unit runs, and the x it has reached
          raw, tile,    \* the files: "none", "right" or "wrong"
          main,         \* where make_tile is
          sync          \* the result it waits for, and that result's state

files == <<raw, tile>>
pool == <<units, index, queue, doing>>
vars == <<pool, files, main, sync>>

Idle == [kind |-> "none", level |-> 0, y |-> 0, x |-> 0]
Task(kind, level, y) == [kind |-> kind, level |-> level, y |-> y, x |-> 0]
At(step, level, y) == [step |-> step, level |-> level, y |-> y]

Init == /\ units \in 1 .. MaxUnits /\ index = 1
        /\ queue = [u \in 1 .. MaxUnits |-> <<>>]
        /\ doing = [u \in 1 .. MaxUnits |-> Idle]
        /\ raw = [p \in AllPages |-> "none"]
        /\ tile = [p \in AllPages |-> "none"]
        /\ main = At("split", Levels, 0)
        /\ sync = [task |-> Idle, state |-> "done"]

-----------------------------------------------------------------------------
(* make_tile *)

Split == /\ main.step = "split"
         /\ raw' = [p \in AllPages |-> IF p[3] = Levels THEN "right" ELSE raw[p]]
         /\ main' = IF Levels = 0 THEN At("encode", Levels, 0) ELSE At("resample", Levels, 0)
         /\ UNCHANGED <<pool, tile, sync>>

(* thread_pool::insert, and the result that the call of async returns. *)
Async(task) == /\ queue' = [queue EXCEPT ![index] = Append(@, task)]
               /\ index' = (index % units) + 1
               /\ sync' = [task |-> task, state |-> "wait"]
               /\ UNCHANGED <<units, doing, files>>

Resample == /\ main.step = "resample"
            /\ Async(Task("resample", main.level, main.y))
            /\ main' = IF main.y + 2 >= High[main.level] THEN At("syncResample", main.level, 0)
                                                         ELSE [main EXCEPT !.y = @ + 2]

Encode == /\ main.step = "encode"
          /\ Async(Task("encode", main.level, main.y))
          /\ main' = IF main.y = High[main.level] - 1 THEN At("syncEncode", main.level, 0)
                                                      ELSE [main EXCEPT !.y = @ + 1]

(* Mutant: the loop over the levels that are resampled waits for none.     *)
SyncEncoded ==
    /\ main.step \in {"syncResample", "syncEncode"}
    /\ main.step = "syncEncode" => sync.state \notin {"wait", "awaited"}
    /\ main' = IF main.step = "syncEncode" /\ sync.state \in {"running", "failed"}
               THEN At("threw", 0, 0)
               ELSE IF main.level > 1 \/ (main.level = 1 /\ main.step = "syncEncode")
               THEN At(IF main.step = "syncEncode" THEN "encode" ELSE "resample",
                       main.level - 1, 0)
               ELSE IF main.step = "syncResample" THEN At("encode", Levels, 0)
               ELSE At("done", 0, 0)
    /\ UNCHANGED <<pool, files, sync>>

(* sync(): it throws when it finds the row under way, as ErrorsAreReal of  *)
(* the pool shows, or failed; it goes on when the row is done.             *)
Sync == /\ main.step \in {"syncResample", "syncEncode"}
        /\ sync.state \notin {"wait", "awaited"}
        /\ main' = IF sync.state \in {"running", "failed"} THEN At("threw", 0, 0)
                   ELSE IF main.level > 1 \/ (main.level = 1 /\ main.step = "syncEncode")
                   THEN At(IF main.step = "syncEncode" THEN "encode" ELSE "resample",
                           main.level - 1, 0)
                   ELSE IF main.step = "syncResample" THEN At("encode", Levels, 0)
                   ELSE At("done", 0, 0)
        /\ UNCHANGED <<pool, files, sync>>

(* It has found the row waiting, and sleeps until the row has ended. *)
Sleep == /\ main.step \in {"syncResample", "syncEncode"} /\ sync.state = "wait"
         /\ sync' = [sync EXCEPT !.state = "awaited"]
         /\ UNCHANGED <<pool, files, main>>

-----------------------------------------------------------------------------
(* The units of the pool *)

Became(task, state) ==
    sync' = IF [task EXCEPT !.x = 0] # sync.task THEN sync
            ELSE IF state = "running" /\ sync.state = "awaited" THEN sync
            ELSE [sync EXCEPT !.state = state]

Start(u) == /\ doing[u] = Idle /\ queue[u] # <<>>
            /\ doing' = [doing EXCEPT ![u] = Head(queue[u])]
            /\ queue' = [queue EXCEPT ![u] = Tail(@)]
            /\ Became(Head(queue[u]), "running")
            /\ UNCHANGED <<units, index, files, main>>

Forward(u, by) == /\ doing' = [doing EXCEPT ![u].x = @ + by]
                /\ UNCHANGED <<units, index, queue, main, sync>>
End(u, state) == /\ doing' = [doing EXCEPT ![u] = Idle]
                 /\ Became(doing[u], state)
                 /\ UNCHANGED <<units, index, queue, files, main>>

(* resample_page: a page that is not there reads as zeroes. *)
ResamplePage(u) ==
    LET t == doing[u]
        below == {p \in Pages(t.level) : /\ p[1] \in {t.x, t.x + 1}
                                         /\ p[2] \in {t.y, t.y + 1}}
    IN  /\ t.kind = "resample" /\ t.x < Wide[t.level]
        /\ raw' = [raw EXCEPT ![<<t.x \div 2, t.y \div 2, t.level - 1>>] =
                       IF \A p \in below : raw[p] = "right" THEN "right" ELSE "wrong"]
        /\ UNCHANGED tile
        /\ Forward(u, 2)

(* encode_row: the page is read, erased, and written as a tile; one that   *)
(* is not there ends the row.                                              *)
EncodePage(u) ==
    LET t == doing[u]
        p == <<t.x, t.y, t.level>>
    IN  /\ t.kind = "encode" /\ t.x < Wide[t.level]
        /\ IF raw[p] = "none" THEN End(u, "failed")
           ELSE /\ tile' = [tile EXCEPT ![p] = raw[p]]
                /\ raw' = [raw EXCEPT ![p] = "none"]
                /\ Forward(u, 1)

RowEnds(u) == /\ doing[u] # Idle /\ doing[u].x >= Wide[doing[u].level]
              /\ End(u, "done")

(* launch returns and the pool is destroyed: a unit that is not in its loop *)
(* over the queue leaves what is queued undone.                            *)
Drop(u) == /\ main.step \in {"done", "threw"}
           /\ doing[u] = Idle /\ queue[u] # <<>>
           /\ queue' = [queue EXCEPT ![u] = <<>>]
           /\ UNCHANGED <<units, index, doing, files, main, sync>>

Make == Split \/ Resample \/ Encode \/ Sync \/ Sleep
Unit(u) == Start(u) \/ ResamplePage(u) \/ EncodePage(u) \/ RowEnds(u)

Next == Make \/ \E u \in 1 .. MaxUnits : Unit(u) \/ Drop(u)

-----------------------------------------------------------------------------
(* A pool of n units takes the rows of a level in turn: the rows that      *)
(* share their unit with the last one, which is waited for, are over in    *)
(* time.  A row is sound if it is, and so are the rows it is made of.      *)
OnTime(n, level, row) == (High[level] - 1 - row) % n = 0

Sound(n) ==
    LET rows[level \in 0 .. Levels] ==
            IF level = Levels THEN 0 .. High[level] - 1
            ELSE {row \in 0 .. High[level] - 1 :
                     /\ OnTime(n, level, row)
                     /\ {2 * row, 2 * row + 1} \cap (0 .. High[level + 1] - 1)
                            \subseteq rows[level + 1]}
    IN  rows

(* When make_tile has returned, with any number of units, each page of a   *)
(* sound row that was encoded in time is a tile made of all the pages      *)
(* below it, and its file in between is gone.  With one unit these are all *)
(* the pages; with more of them the others may be wrong or missing.  The   *)
(* coarsest level is one page, the one that tile_source opens.             *)
PyramidWhole ==
    main.step = "done" =>
        /\ \A p \in AllPages :
               units = 1 \/ (OnTime(units, p[3], p[2]) /\ p[2] \in Sound(units)[p[3]])
                   => tile[p] = "right" /\ raw[p] = "none"
        /\ Pages(0) = {<<0, 0, 0>>}

(* Any number of units: make_tile returns or throws. *)
MakeTileReturns == main.step = "split" ~> main.step \in {"done", "threw"}
=============================================================================
