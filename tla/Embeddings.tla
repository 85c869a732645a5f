----------------------------- MODULE Embeddings -----------------------------
(***************************************************************************)
(* The persistent cache of embeddings (inference.rs): every runtime of the *)
(* local backend loads the file, serves and fills its own copy from        *)
(* concurrent calls, and writes it back when it is dropped.  A reload, and *)
(* the command line beside the server, put two runtimes on one file and    *)
(* one temporary name.  A vector is the space and the text it was computed *)
(* from.                                                                   *)
(***************************************************************************)
EXTENDS Integers, Sequences, FiniteSets, SequencesExt

CONSTANTS
  Spaces,     \* backend identifier and width
  Inputs,     \* the texts to embed
  MaxInputs,  \* texts in one call
  Capacity,   \* local_cache_capacity, in entries
  Runtimes,   \* runtimes that may hold the file
  Jobs        \* calls of embed

ASSUME EmbeddingsAssumption == Capacity \in Nat \ {0} /\ MaxInputs \in Nat \ {0}

VARIABLES
  disk,     \* the cache file
  tmp,      \* the temporary file beside it
  runtime,  \* runtime[i]: its state, its space, its copy, the file it writes
  job       \* job[c]: the runtime, the texts, the vectors known so far

embeddingsVars == <<disk, tmp, runtime, job>>

\* A file: absent, truncated, torn by two writers, or the entries of a copy.
File(state, entries) == [state |-> state, entries |-> entries]
Absent == File("absent", <<>>)
Truncated == File("truncated", <<>>)
Torn == File("torn", <<>>)

NoRuntime == [state |-> "off", space |-> "none", copy |-> <<>>, inode |-> "none"]
NoJob == [state |-> "idle", runtime |-> "none", texts |-> <<>>, vectors |-> <<>>]

Vector(space, text) == <<space, text>>
NoVector == <<>>

----------------------------------------------------------------------------
(* EmbeddingCache: a copy is a sequence of [key, vector], least recently used *)
(* first.                                                                   *)

\* Mutant: the key is the digest of the text alone.
TextKey(space, text) == <<"any", text>>

\* cache_key.
CacheKey(space, text) == <<space, text>>

Keys(copy) == {copy[i].key : i \in 1 .. Len(copy)}
Position(copy, key) == CHOOSE i \in 1 .. Len(copy) : copy[i].key = key
Entry(copy, key) == copy[Position(copy, key)]
WithoutKey(copy, key) ==
  IF key \in Keys(copy) THEN RemoveAt(copy, Position(copy, key)) ELSE copy

\* The newest entries a cache may hold.
Trimmed(copy) ==
  IF Len(copy) > Capacity THEN SubSeq(copy, Len(copy) - Capacity + 1, Len(copy)) ELSE copy

\* load: a file that does not parse is an empty cache.
Load(file) == IF file.state = "whole" THEN Trimmed(file.entries) ELSE <<>>

\* get: a hit becomes the most recently used entry.
Lookup(copy, key) ==
  IF key \in Keys(copy) THEN Append(WithoutKey(copy, key), Entry(copy, key)) ELSE copy

\* insert.
Insert(copy, key, vector) ==
  Trimmed(Append(WithoutKey(copy, key), [key |-> key, vector |-> vector]))

\* What a call does to the copy: its texts are looked up, and those that were
\* missing are inserted, in their order.
LookedUp(copy, space, texts) ==
  LET after[n \in 0 .. Len(texts)] ==
        IF n = 0 THEN copy ELSE Lookup(after[n - 1], CacheKey(space, texts[n]))
  IN after[Len(texts)]

Filled(copy, space, texts, missing) ==
  LET after[n \in 0 .. Len(texts)] ==
        IF n = 0 THEN copy
        ELSE IF n \in missing
             THEN Insert(after[n - 1], CacheKey(space, texts[n]), Vector(space, texts[n]))
             ELSE after[n - 1]
  IN after[Len(texts)]

----------------------------------------------------------------------------
EmbeddingsInit ==
  /\ disk = Absent /\ tmp = Absent
  /\ runtime = [i \in Runtimes |-> NoRuntime]
  /\ job = [c \in Jobs |-> NoJob]

\* InferenceRuntime::local.
OpenRuntime(i, space) ==
  /\ runtime[i].state = "off"
  /\ runtime' = [runtime EXCEPT ![i] =
       [state |-> "live", space |-> space, copy |-> Load(disk), inode |-> "none"]]
  /\ UNCHANGED <<disk, tmp, job>>

\* embed, first lock: every text is looked up before anything is awaited.
LookUpTexts(c, i, texts) ==
  LET space == runtime[i].space
      hit(text) == CacheKey(space, text) \in Keys(runtime[i].copy)
      vectors == [n \in 1 .. Len(texts) |->
                   IF hit(texts[n]) THEN Entry(runtime[i].copy, CacheKey(space, texts[n])).vector
                   ELSE NoVector]
  IN
  /\ job[c].state = "idle" /\ runtime[i].state = "live"
  /\ runtime' = [runtime EXCEPT ![i].copy = LookedUp(@, space, texts)]
  /\ job' = [job EXCEPT ![c] =
       [state |-> IF NoVector \in ToSet(vectors) THEN "awaiting" ELSE "returned",
        runtime |-> i, texts |-> texts, vectors |-> vectors]]
  /\ UNCHANGED <<disk, tmp>>

\* embed, second lock: the missing texts are inserted in order.
InsertTexts(c) ==
  LET i == job[c].runtime
      space == runtime[i].space
      missing == {n \in 1 .. Len(job[c].texts) : job[c].vectors[n] = NoVector}
  IN
  /\ job[c].state = "awaiting"
  /\ runtime' = [runtime EXCEPT ![i].copy = Filled(@, space, job[c].texts, missing)]
  /\ job' = [job EXCEPT ![c].state = "returned",
               ![c].vectors = [n \in DOMAIN @ |->
                  IF n \in missing THEN Vector(space, job[c].texts[n]) ELSE @[n]]]
  /\ UNCHANGED <<disk, tmp>>

\* The backend fails, or the caller is cancelled at the await.
EmbedFails(c) ==
  /\ job[c].state = "awaiting"
  /\ job' = [job EXCEPT ![c] = NoJob]
  /\ UNCHANGED <<disk, tmp, runtime>>

\* The scorer has used the vectors.
EndJob(c) ==
  /\ job[c].state = "returned"
  /\ job' = [job EXCEPT ![c] = NoJob]
  /\ UNCHANGED <<disk, tmp, runtime>>

\* Drop, once no call holds the runtime: fs::write opens and truncates.
OpenTmp(i) ==
  /\ runtime[i].state = "live"
  /\ \A c \in Jobs : job[c].state = "idle" \/ job[c].runtime # i
  /\ tmp' = Truncated
  /\ runtime' = [runtime EXCEPT ![i] =
       [state |-> "writing", space |-> "none", copy |-> runtime[i].copy, inode |-> "tmp"]]
  /\ UNCHANGED <<disk, job>>

\* The write reaches the file that was opened, wherever a rename has put it;
\* over a longer one it leaves a torn file.
Overwritten(file, content) ==
  IF file.state = "truncated" THEN {content} ELSE {content, Torn}

WriteCopy(i) ==
  LET content == File("whole", runtime[i].copy)
      inode == runtime[i].inode
  IN
  /\ runtime[i].state = "writing"
  /\ tmp' \in IF inode = "tmp" THEN Overwritten(tmp, content) ELSE {tmp}
  /\ disk' \in IF inode = "disk" THEN Overwritten(disk, content) ELSE {disk}
  /\ runtime' = [runtime EXCEPT ![i].state = "written", ![i].copy = <<>>]
  /\ UNCHANGED job

\* The write fails: what was opened stays truncated.
SaveFails(i) ==
  /\ runtime[i].state = "writing"
  /\ runtime' = [runtime EXCEPT ![i] = NoRuntime]
  /\ UNCHANGED <<disk, tmp, job>>

\* The files other writers have open once tmp has taken the place of disk.
Moved(inode) ==
  CASE inode = "tmp" -> "disk" [] inode = "disk" -> "gone" [] OTHER -> inode

\* rename, which fails when the other runtime has already renamed the file.
RenameTmp(i) ==
  /\ runtime[i].state = "written"
  /\ IF tmp = Absent
     THEN /\ UNCHANGED <<disk, tmp>>
          /\ runtime' = [runtime EXCEPT ![i] = NoRuntime]
     ELSE /\ disk' = tmp /\ tmp' = Absent
          /\ runtime' = [k \in Runtimes |-> IF k = i THEN NoRuntime
                          ELSE [runtime[k] EXCEPT !.inode = Moved(@)]]
  /\ UNCHANGED job

\* The process is killed: nothing is written back.
KillRuntime(i) ==
  /\ runtime[i].state # "off"
  /\ runtime' = [runtime EXCEPT ![i] = NoRuntime]
  /\ job' = [c \in Jobs |-> IF job[c].runtime = i THEN NoJob ELSE job[c]]
  /\ UNCHANGED <<disk, tmp>>

EmbeddingsNext ==
  \/ \E i \in Runtimes :
       \/ \E space \in Spaces : OpenRuntime(i, space)
       \/ OpenTmp(i) \/ WriteCopy(i) \/ SaveFails(i) \/ RenameTmp(i) \/ KillRuntime(i)
  \/ \E c \in Jobs :
       \/ \E i \in Runtimes, n \in 1 .. MaxInputs : \E texts \in [1 .. n -> Inputs] :
            LookUpTexts(c, i, texts)
       \/ InsertTexts(c) \/ EmbedFails(c) \/ EndJob(c)

EmbeddingsSpec == EmbeddingsInit /\ [][EmbeddingsNext]_embeddingsVars

----------------------------------------------------------------------------
\* Every call returns, for each of its texts and in their order, the vector of
\* that text in the space of its own runtime, whatever other spaces, calls,
\* evictions, crashes and racing writers left in the file; and no copy exceeds
\* its capacity or holds a key twice.
EmbeddingsMatch ==
  /\ \A c \in Jobs : job[c].state = "returned" =>
       \A n \in 1 .. Len(job[c].texts) :
         job[c].vectors[n] = Vector(runtime[job[c].runtime].space, job[c].texts[n])
  /\ \A i \in Runtimes :
       Len(runtime[i].copy) <= Capacity /\ Cardinality(Keys(runtime[i].copy)) = Len(runtime[i].copy)
=============================================================================
