----------------------------- MODULE MediaCache -----------------------------
(***************************************************************************)
(* The client's cache of audio and video that peers return (nodes_remote.py *)
(* 1117-1394): files named after their content under one directory, counts *)
(* of references to them in memory, and the paths each prompt owns until   *)
(* ComfyUI says that it ended.  Every section under _REMOTE_MEDIA_LOCK is  *)
(* one step; between the sections of one call or of one prompt's end other *)
(* calls may take the lock.                                                *)
(***************************************************************************)
EXTENDS Naturals, FiniteSets

CONSTANTS
  Files,      \* contents
  Size,       \* Size[f]
  Limit,      \* MAX_REMOTE_MEDIA_CACHE_BYTES
  Calls,      \* outputs that are materialised
  Prompts,    \* local prompts
  NoPrompt,   \* an output without a prompt id
  NoFile,     \* a call that holds no file
  MaxRestarts \* bound: restarts of ComfyUI

ASSUME MediaAssumption ==
  /\ Size \in [Files -> Nat \ {0}]
  /\ Limit \in Nat
  /\ \A f \in Files : Size[f] <= Limit  \* MAX_REMOTE_MEDIA_ITEM_BYTES
  /\ NoPrompt \notin Prompts
  /\ NoFile \notin Files
  /\ MaxRestarts \in Nat

VARIABLES
  disk,      \* files in the directory under their names
  older,     \* pairs of them: the first was modified before the second
  aged,      \* those older than REMOTE_MEDIA_CACHE_MAX_AGE_SECONDS
  parts,     \* contents of which a write has left its temporary file there
  left,      \* history: files that stayed though the last write removed them
  refs,      \* _REMOTE_MEDIA_PATH_REFS
  owned,     \* _REMOTE_MEDIA_PROMPT_PATHS
  prompt,    \* prompt[p]: where ComfyUI is with it
  releasing, \* releasing[p]: paths popped for it that are yet to be released
  at,        \* at[c]: where a call is
  call,      \* call[c]: its file, its kind and its prompt
  restarts

diskVars == <<disk, older, aged, parts, left>>
vars == <<diskVars, refs, owned, prompt, releasing, at, call, restarts>>

NoCall == [file |-> NoFile, kind |-> "none", for |-> NoPrompt]

Init ==
  /\ disk = {}
  /\ older = {}
  /\ aged = {}
  /\ parts = {}
  /\ left = {}
  /\ refs = [f \in Files |-> 0]
  /\ owned = [p \in Prompts |-> {}]
  /\ prompt = [p \in Prompts |-> "live"]
  /\ releasing = [p \in Prompts |-> {}]
  /\ at = [c \in Calls |-> "idle"]
  /\ call = [c \in Calls |-> NoCall]
  /\ restarts = 0

\* The bytes of some files, each a pair of its file and its place there.
Bytes(files) == Cardinality(UNION {{f} \X (1..Size[f]) : f \in files})

-----------------------------------------------------------------------------
(* Eviction.                                                               *)

\* Slip: eviction does not look at references.
Active_Never(f) == FALSE

\* _active_remote_media_paths.
Active(f) == refs[f] > 0

\* What the age limit leaves.
Fresh == {f \in disk : Active(f) \/ f \notin aged}

\* Slip: the file that is about to be written needs no room.
Target_Full(required) == Limit

Target(required) == IF required > Limit THEN 0 ELSE Limit - required

\* Those that give way before f.
GoBefore(f) == {g \in Fresh : ~Active(g) /\ <<g, f>> \in older}

\* What is left: aged files go, then the oldest ones not in use, each if there is
\* still too little room without those before it.
Evicted(required) ==
  {f \in Fresh : Active(f) \/ Bytes(Fresh \ GoBefore(f)) <= Target(required)}

\* What is in the directory when only these files are to stay: an unlink that fails
\* is logged, and its file counts as gone (_remove_remote_media_file).
Remaining(files) == {rest \in SUBSET disk : files \subseteq rest}

\* Only the rest stays ...
Keep(rest) ==
  /\ disk' = rest
  /\ older' = older \cap (rest \X rest)
  /\ aged' = aged \cap rest
  /\ left' = left \cap rest

\* ... or the rest and f, which was modified just now.
KeepAndTouch(rest, f) ==
  LET others == rest \ {f}
  IN /\ disk' = others \cup {f}
     /\ older' = (older \cap (others \X others)) \cup (others \X {f})
     /\ aged' = aged \cap others

\* Temporary files go at the next eviction after REMOTE_MEDIA_TEMP_MAX_AGE_SECONDS.
Trim == parts' \in SUBSET parts /\ \E rest \in Remaining(Evicted(0)) : Keep(rest)

-----------------------------------------------------------------------------
(* _materialize_remote_media_value.                                        *)

Begins(c, f, k, p) ==
  /\ at[c] = "idle"
  /\ p # NoPrompt => prompt[p] = "live"
  /\ call' = [call EXCEPT ![c] = [file |-> f, kind |-> k, for |-> p]]

\* The file is there: it is checked, made the youngest, and retained.
FindsFile(c, f, k, p) ==
  /\ Begins(c, f, k, p)
  /\ f \in disk
  /\ KeepAndTouch(disk, f)
  /\ refs' = [refs EXCEPT ![f] = @ + 1]
  /\ at' = [at EXCEPT ![c] = "held"]
  /\ UNCHANGED <<parts, left, owned, prompt, releasing, restarts>>

\* Eviction finds that there is room for f without what it removes.
Room(f) == Bytes(Evicted(Size[f])) <= Target(Size[f])

\* Room is made, f is written to a temporary file and linked to its name; the
\* temporary file stays if it cannot be removed, or if ComfyUI ends before.
Writes(f) ==
  /\ Room(f)
  /\ parts' \in SUBSET (parts \cup {f})
  /\ \E rest \in Remaining(Evicted(Size[f])) :
       KeepAndTouch(rest, f) /\ left' = rest \ Evicted(Size[f])

WritesFile(c, f, k, p) ==
  /\ Begins(c, f, k, p)
  /\ f \notin disk
  /\ Writes(f)
  /\ refs' = [refs EXCEPT ![f] = @ + 1]
  /\ at' = [at EXCEPT ![c] = "held"]
  /\ UNCHANGED <<owned, prompt, releasing, restarts>>

\* Files in use leave no room, or the write fails, before or after the link (or
\* Restarts follows): what was evicted is gone.
WriteFails(c, f) ==
  /\ at[c] = "idle"
  /\ f \notin disk
  /\ \/ /\ parts' \in SUBSET (IF Room(f) THEN parts \cup {f} ELSE parts)
        /\ \E rest \in Remaining(Evicted(Size[f])) : Keep(rest)
     \/ Writes(f)
  /\ at' = [at EXCEPT ![c] = "failed"]
  /\ UNCHANGED <<refs, owned, prompt, releasing, call, restarts>>

\* Slip: a prompt that owns the file already counts it again.
RetainsForPrompt_Again(c) ==
  /\ at[c] = "held" /\ call[c].kind = "video"
  /\ LET f == call[c].file  p == call[c].for
     IN IF p = NoPrompt
        THEN UNCHANGED <<refs, owned>>
        ELSE /\ owned' = [owned EXCEPT ![p] = @ \cup {f}]
             /\ refs' = [refs EXCEPT ![f] = @ + 1]
  /\ at' = [at EXCEPT ![c] = "retained"]
  /\ UNCHANGED <<diskVars, prompt, releasing, call, restarts>>

\* A video that can be opened becomes its prompt's, unless it already is.
RetainsForPrompt(c) ==
  /\ at[c] = "held" /\ call[c].kind = "video"
  /\ LET f == call[c].file  p == call[c].for
     IN IF p = NoPrompt \/ f \in owned[p]
        THEN UNCHANGED <<refs, owned>>
        ELSE /\ owned' = [owned EXCEPT ![p] = @ \cup {f}]
             /\ refs' = [refs EXCEPT ![f] = @ + 1]
  /\ at' = [at EXCEPT ![c] = "retained"]
  /\ UNCHANGED <<diskVars, prompt, releasing, call, restarts>>

LastOf(f) == refs[f] <= 1

\* _release_remote_media_path.
Release(f, removeWhenZero) ==
  /\ refs' = [refs EXCEPT ![f] = IF LastOf(f) THEN 0 ELSE @ - 1]
  /\ IF LastOf(f) /\ removeWhenZero
     THEN parts' = parts /\ \E rest \in Remaining(disk \ {f}) : Keep(rest)
     ELSE UNCHANGED diskVars

Ends(c) ==
  /\ at' = [at EXCEPT ![c] = "over"]
  /\ call' = [call EXCEPT ![c] = NoCall]

\* The call's own reference: a video without a prompt stays in the directory.
ReleasesVideo(c) ==
  /\ at[c] = "retained"
  /\ Release(call[c].file, call[c].for # NoPrompt)
  /\ Ends(c)
  /\ UNCHANGED <<owned, prompt, releasing, restarts>>

\* Audio was read, or could not be; the video could not be opened.
ReleasesFile(c) ==
  /\ at[c] = "held"
  /\ Release(call[c].file, TRUE)
  /\ Ends(c)
  /\ UNCHANGED <<owned, prompt, releasing, restarts>>

-----------------------------------------------------------------------------
(* ComfyUI's prompts: _RemoteMediaLifecycleProvider.                       *)

\* on_prompt_start, for another prompt: eviction only.
PromptStarts ==
  /\ Trim
  /\ UNCHANGED <<refs, owned, prompt, releasing, at, call, restarts>>

\* on_prompt_end, once the prompt's nodes are over: its paths are popped ...
PromptEnds(p) ==
  /\ prompt[p] = "live"
  /\ \A c \in Calls : call[c].for # p
  /\ prompt' = [prompt EXCEPT ![p] = "ending"]
  /\ releasing' = [releasing EXCEPT ![p] = owned[p]]
  /\ owned' = [owned EXCEPT ![p] = {}]
  /\ UNCHANGED <<diskVars, refs, at, call, restarts>>

\* ... released one by one ...
PromptReleases(p, f) ==
  /\ f \in releasing[p]
  /\ Release(f, TRUE)
  /\ releasing' = [releasing EXCEPT ![p] = @ \ {f}]
  /\ UNCHANGED <<owned, prompt, at, call, restarts>>

\* ... and the directory is trimmed.
PromptTrims(p) ==
  /\ prompt[p] = "ending" /\ releasing[p] = {}
  /\ Trim
  /\ prompt' = [prompt EXCEPT ![p] = "over"]
  /\ UNCHANGED <<refs, owned, releasing, at, call, restarts>>

\* Time passes: the oldest file reaches the age limit.
Ages ==
  \E f \in disk \ aged :
    /\ \A g \in disk \ aged : g = f \/ <<f, g>> \in older
    /\ aged' = aged \cup {f}
    /\ UNCHANGED <<disk, older, parts, left, refs, owned, prompt, releasing, at, call, restarts>>

\* ComfyUI is restarted: what was in memory is gone, prompts and calls with it.
Restarts ==
  /\ restarts < MaxRestarts
  /\ restarts' = restarts + 1
  /\ refs' = [f \in Files |-> 0]
  /\ owned' = [p \in Prompts |-> {}]
  /\ releasing' = [p \in Prompts |-> {}]
  /\ prompt' = [p \in Prompts |-> IF prompt[p] = "ending" THEN "over" ELSE prompt[p]]
  /\ at' = [c \in Calls |-> IF at[c] \in {"held", "retained"} THEN "failed" ELSE at[c]]
  /\ call' = [c \in Calls |-> NoCall]
  /\ UNCHANGED diskVars

Next ==
  \/ \E c \in Calls, f \in Files :
       \/ WriteFails(c, f)
       \/ \E k \in {"audio", "video"}, p \in Prompts \cup {NoPrompt} :
            FindsFile(c, f, k, p) \/ WritesFile(c, f, k, p)
  \/ \E c \in Calls : RetainsForPrompt(c) \/ ReleasesVideo(c) \/ ReleasesFile(c)
  \/ \E p \in Prompts :
       PromptEnds(p) \/ PromptTrims(p) \/ \E f \in Files : PromptReleases(p, f)
  \/ PromptStarts \/ Ages \/ Restarts

Spec == Init /\ [][Next]_vars

-----------------------------------------------------------------------------
\* Who needs a file: calls that hold it and prompts that own it.
Holders(f) == {c \in Calls : call[c].file = f}
Owners(f) == {p \in Prompts : f \in owned[p] \cup releasing[p]}

\* The counts are those of the calls and prompts that need a file, across
\* outputs that share content, prompts that end meanwhile and restarts
\* (_retain_remote_media_for_prompt, _release_remote_media_path).
CountsAreUsers ==
  \A f \in Files : refs[f] = Cardinality(Holders(f)) + Cardinality(Owners(f))

\* A file that a call reads or a live prompt's video is backed by stays in the
\* directory (_evict_remote_media_cache, _release_remote_media_path).
UsedFilesStay ==
  \A f \in Files : Holders(f) # {} \/ Owners(f) # {} => f \in disk

\* After every write the named files that eviction meant to keep are within the
\* limit, and stay so until the next one: only files whose unlink failed in that
\* write's eviction can exceed it, whatever else fails, and whether or not they are
\* used again (_evict_remote_media_cache_locked subtracts them all the same).
\* Temporary files are not counted, by the code or here.
WithinLimit == Bytes(disk \ left) <= Limit

TypeOK ==
  /\ disk \subseteq Files /\ older \subseteq disk \X disk /\ aged \subseteq disk
  /\ parts \subseteq Files /\ left \subseteq disk
  /\ refs \in [Files -> Nat]
  /\ owned \in [Prompts -> SUBSET Files]
  /\ prompt \in [Prompts -> {"live", "ending", "over"}]
  /\ releasing \in [Prompts -> SUBSET Files]
  /\ at \in [Calls -> {"idle", "held", "retained", "over", "failed"}]
  /\ call \in [Calls -> [file : Files \cup {NoFile}, kind : {"none", "audio", "video"},
                          for : Prompts \cup {NoPrompt}]]
  /\ restarts \in Nat
=============================================================================
