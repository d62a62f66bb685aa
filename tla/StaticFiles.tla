---------------------------- MODULE StaticFiles ----------------------------
(***************************************************************************)
(* The static files of the internal service (ksbh-bin/src/apps/            *)
(* static_content): requests that look at a file, take it from a cache or  *)
(* map it anew, and write it chunk by chunk, while it is replaced.         *)
(*                                                                         *)
(* A file is replaced by another one under its name; every version has its *)
(* own time of modification, which the numbers of the versions stand for.  *)
(***************************************************************************)
EXTENDS Naturals

CONSTANTS
    Files,          \* paths below static_content, the checked ones
    Requests,       \* requests that may be under way together
    MaxVersions,    \* bound: replacements of each file
    Length,         \* version -> its length
    Tag,            \* version -> its ETag: seconds and length, hence not injective
    ChunkSize,      \* 256 KiB
    Ranges,         \* bound: <<first, last>> of a range header
    None            \* no header, no entry

Versions == 1..MaxVersions

ASSUME StaticAssumption ==
    /\ MaxVersions \in Nat \ {0}
    /\ Length \in [Versions -> Nat]
    /\ ChunkSize \in Nat \ {0}
    /\ Ranges \subseteq (Nat \X Nat) \cup {None}
    /\ None \notin Nat \X Nat

VARIABLES
    latest,     \* file -> its last version
    there,      \* file -> whether it is there now
    cache,      \* FileCache: what is described, what is mapped
    task        \* request -> where it is

vars == <<latest, there, cache, task>>

\* FileMeta: the version that modified, length and etag are of, and the version
\* that was mapped.
FileMeta == [of : Versions, mapped : Versions]

Idle == [at |-> "idle"]

\* Where a request has its FileMeta.
Answering == {"respond", "write", "aborted"}

TypeOK ==
    /\ latest \in [Files -> 0..MaxVersions]
    /\ there \in [Files -> BOOLEAN]
    /\ \A f \in Files : cache[f] # None => cache[f] \in FileMeta
    /\ \A r \in Requests :
        /\ task[r].at \in {"idle", "look", "lookup"} \cup Answering
        /\ task[r].at # "idle" => task[r].file \in Files
        /\ task[r].at = "lookup" => task[r].saw \in Versions
        /\ task[r].at \in Answering => task[r].saw \in Versions /\ task[r].meta \in FileMeta
        /\ task[r].at \in {"write", "aborted"} =>
            /\ task[r].end \in 0..Length[task[r].meta.of]
            /\ task[r].offset \in 0..task[r].end

Init ==
    /\ latest \in [Files -> {0, 1}]
    /\ there = [f \in Files |-> latest[f] = 1]
    /\ cache = [f \in Files |-> None]
    /\ task = [r \in Requests |-> Idle]

-----------------------------------------------------------------------------
(* The files, from outside.                                                *)

Replace(f) ==
    /\ latest[f] < MaxVersions
    /\ latest' = [latest EXCEPT ![f] = @ + 1]
    /\ there' = [there EXCEPT ![f] = TRUE]
    /\ UNCHANGED <<cache, task>>

Delete(f) ==
    /\ there[f]
    /\ there' = [there EXCEPT ![f] = FALSE]
    /\ UNCHANGED <<latest, cache, task>>

-----------------------------------------------------------------------------
(* A request for /static with a file.                                      *)

Become(r, state) == task' = [task EXCEPT ![r] = state]

\* The connection is closed, with or without an answer.
End(r) == Become(r, Idle)

Arrive(r, f, tag, range) ==
    /\ task[r].at \in {"idle", "aborted"}
    /\ Become(r, [at |-> "look", file |-> f, tag |-> tag, range |-> range])
    /\ UNCHANGED <<latest, there, cache>>

\* get_clean_file_path, and the time and the length of the file, before the
\* lock of the cache is taken.
Look(r) ==
    LET t == task[r]
    IN  /\ t.at = "look"
        /\ there[t.file]
        /\ Become(r, [at |-> "lookup", file |-> t.file, tag |-> t.tag, range |-> t.range,
                      saw |-> latest[t.file]])
        /\ UNCHANGED <<latest, there, cache>>

NotThere(r) ==
    /\ task[r].at = "look"
    /\ ~there[task[r].file]
    /\ End(r)
    /\ UNCHANGED <<latest, there, cache>>

\* Mutant: whatever is in the cache is taken.
AnyCached(f, saw) == cache[f] # None

\* An entry with the time that was seen is taken as it is.
Cached(f, saw) == cache[f] # None /\ cache[f].of = saw

With(t, meta) ==
    [at |-> "respond", file |-> t.file, tag |-> t.tag, range |-> t.range, saw |-> t.saw,
     meta |-> meta]

Hit(r) ==
    LET t == task[r]
    IN  /\ t.at = "lookup"
        /\ Cached(t.file, t.saw)
        /\ Become(r, With(t, cache[t.file]))
        /\ UNCHANGED <<latest, there, cache>>

\* The file is opened and mapped as it is now.
Map(f, saw) == [of |-> saw, mapped |-> latest[f]]

Miss(r) ==
    LET t == task[r]
        meta == Map(t.file, t.saw)
    IN  /\ t.at = "lookup"
        /\ ~Cached(t.file, t.saw)
        /\ there[t.file]
        /\ cache' = [cache EXCEPT ![t.file] = meta]
        /\ Become(r, With(t, meta))
        /\ UNCHANGED <<latest, there>>

\* The file cannot be opened any more.
Vanished(r) ==
    /\ task[r].at = "lookup"
    /\ ~Cached(task[r].file, task[r].saw)
    /\ ~there[task[r].file]
    /\ End(r)
    /\ UNCHANGED <<latest, there, cache>>

-----------------------------------------------------------------------------
(* The answer.                                                             *)

\* if-none-match: an answer without a body (401, where HTTP has 304).
Matched(r) ==
    /\ task[r].at = "respond"
    /\ task[r].tag = Tag[task[r].meta.of]
    /\ End(r)
    /\ UNCHANGED <<latest, there, cache>>

\* Mutant: last may be the length.
WithinOrAt(range, length) == range # None /\ range[1] < length /\ range[2] <= length
                                          /\ range[1] <= range[2]

\* A range that is not within the file is ignored.
Within(range, length) == range # None /\ range[1] < length /\ range[2] < length
                                      /\ range[1] <= range[2]

Respond(r) ==
    LET t == task[r]
        length == Length[t.meta.of]
        ranged == Within(t.range, length)
    IN  /\ t.at = "respond"
        /\ t.tag # Tag[t.meta.of]
        /\ Become(r, [at |-> "write", file |-> t.file, saw |-> t.saw, meta |-> t.meta,
                      offset |-> IF ranged THEN t.range[1] ELSE 0,
                      end |-> IF ranged THEN t.range[2] + 1 ELSE length])
        /\ UNCHANGED <<latest, there, cache>>

ChunkEnd(t) == IF t.offset + ChunkSize < t.end THEN t.offset + ChunkSize ELSE t.end

WriteChunk(r) ==
    LET t == task[r]
    IN  /\ t.at = "write"
        /\ t.offset < t.end
        /\ ChunkEnd(t) <= Length[t.meta.mapped]
        /\ Become(r, [t EXCEPT !.offset = ChunkEnd(t)])
        /\ UNCHANGED <<latest, there, cache>>

\* The slice is out of range: the task panics after what was written.
Abort(r) ==
    LET t == task[r]
    IN  /\ t.at = "write"
        /\ t.offset < t.end
        /\ ChunkEnd(t) > Length[t.meta.mapped]
        /\ Become(r, [t EXCEPT !.at = "aborted"])
        /\ UNCHANGED <<latest, there, cache>>

Finish(r) ==
    /\ task[r].at = "write"
    /\ task[r].offset = task[r].end
    /\ End(r)
    /\ UNCHANGED <<latest, there, cache>>

\* The client is gone: a write fails.
Leave(r) ==
    /\ task[r].at \in {"respond", "write"}
    /\ End(r)
    /\ UNCHANGED <<latest, there, cache>>

-----------------------------------------------------------------------------

Step(r) ==
    \/ Look(r) \/ NotThere(r) \/ Hit(r) \/ Miss(r) \/ Vanished(r)
    \/ Matched(r) \/ Respond(r) \/ WriteChunk(r) \/ Abort(r) \/ Finish(r) \/ Leave(r)

Next ==
    \/ \E f \in Files : Replace(f) \/ Delete(f)
    \/ \E r \in Requests, f \in Files, range \in Ranges :
           \E tag \in {Tag[v] : v \in Versions} \cup {None} : Arrive(r, f, tag, range)
    \/ \E r \in Requests : Step(r)

Spec == Init /\ [][Next]_vars

-----------------------------------------------------------------------------
(* Properties.                                                             *)

\* What a request is answered with is never older than the file was when the
\* request looked at it, whatever other requests entered into the cache between
\* that look and the lock, with the times they had seen.
AnswersAreFresh ==
    \A r \in Requests :
        task[r].at \in Answering => task[r].meta.mapped \in task[r].saw..latest[task[r].file]

\* An entry may describe one version and map a later one, but never if it is the
\* file's present version that it describes: a request that sees the file as it
\* is gets what it is described as.
DescribedAsMapped ==
    \A f \in Files :
        cache[f] # None /\ cache[f].of = latest[f] => cache[f].mapped = latest[f]

\* An answer breaks off, or its slices run over the map, only if the file was
\* replaced by a shorter one between the look at it and its opening; never by
\* what range asks for.
AbortsOnlyAcrossReplacement ==
    \A r \in Requests :
        task[r].at = "aborted" =>
            /\ task[r].meta.of < task[r].meta.mapped
            /\ Length[task[r].meta.mapped] < Length[task[r].meta.of]
=============================================================================
