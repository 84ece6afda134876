----------------------------- MODULE Downloads -----------------------------
(***************************************************************************)
(* web/models.py: the download jobs of the web manager.  Each job is a     *)
(* thread; all of them write below models/, through `.part` files whose    *)
(* names depend on the destination alone, and nothing keeps two jobs off   *)
(* one file.  A GGUF download is validated and renamed into place; an      *)
(* MTPLX pack is staged file by file and its directory renamed at the end. *)
(* The server may be restarted at any step: the jobs are gone, the files   *)
(* are there, and the operator asks again.                                 *)
(*                                                                         *)
(* The content of a file is the sequence of the revisions its chunks are   *)
(* of; 0 is a hole.  An open file is known by where it is linked now.      *)
(***************************************************************************)
EXTENDS Integers, Sequences, FiniteSets

CONSTANTS
  Jobs,
  Revisions   \* bound: the revisions `main` moves through, 1..Revisions

ASSUME DownloadsAssumption == Revisions \in Nat \ {0}

VARIABLES
  kind,     \* what is being downloaded: "gguf" or "pack"
  remote,   \* the revision `main` is at
  part,     \* the `.part` of each file
  dest,     \* each file under its own name: in models/, or in the staging directory
  target,   \* the pack in place
  job,      \* HF_DOWNLOAD_JOBS and their threads
  raced,    \* a job has begun while another was at work (history)
  wanted,   \* the revision the GGUF in place was checked against, or 0 (history)
  fresh     \* the pack in place was staged from nothing by one job (history)

vars == <<kind, remote, part, dest, target, job, raced, wanted, fresh>>
files == <<part, dest, target>>
history == <<raced, wanted, fresh>>

PackFiles == {"marker", "weights"}
Files == PackFiles \cup {"gguf"}
Order(k) == IF k = "gguf" THEN <<"gguf">> ELSE <<"marker", "weights">>
Size(f) == IF f = "gguf" THEN 2 ELSE 1   \* in chunks

NoFile == <<-1>>
Revs == 1..Revisions
Contents == {NoFile} \cup UNION {[1..n -> 0..Revisions] : n \in 0..2}
Whole(f, r) == [n \in 1..Size(f) |-> r]
NoPack == [f \in PackFiles |-> NoFile]

\* file: the index of the file it is at; rev: the commit it is pinned to, or 0 for
\* main; expect: the revision of the published SHA-256, or 0; of: the revision of
\* the answer being read; pos: chunks of the file read; at: where the open file is.
Idle == [step |-> "idle", file |-> 1, rev |-> 0, expect |-> 0, fresh |-> FALSE,
         of |-> 0, pos |-> 0, mode |-> "wb", at |-> "closed"]
Steps == {"idle", "file", "ask", "open", "write", "check", "place", "rename"}
Job == [step: Steps, file: 1..2, rev: 0..Revisions, expect: 0..Revisions, fresh: BOOLEAN,
        of: 0..Revisions, pos: 0..2, mode: {"wb", "ab"}, at: {"closed", "part", "dest", "target", "gone"}]

File(j) == Order(kind)[job[j].file]
Put(j, new) == job' = [job EXCEPT ![j] = new]
\* run_hf_download_job: whatever is raised ends the job, as the last step does.
Ended(j) == Put(j, Idle)

------------------------------------------------------------------------------
(* A job begins *)

Racing(j) == raced' = (raced \/ \E k \in Jobs \ {j} : job[k].step # "idle")

BeginGguf(j) ==
  /\ kind = "gguf" /\ job[j].step = "idle"
  /\ \E expect \in {0, remote} : Put(j, [Idle EXCEPT !.step = "ask", !.expect = expect])
  /\ Racing(j) /\ UNCHANGED <<kind, remote, files, wanted, fresh>>

BeginPackAtMain(j) ==   \* mutant: not pinned to a commit
  /\ kind = "pack" /\ job[j].step = "idle" /\ target["marker"] = NoFile
  /\ Put(j, [Idle EXCEPT !.step = "file", !.fresh = \A f \in PackFiles : part[f] = NoFile /\ dest[f] = NoFile])
  /\ Racing(j) /\ UNCHANGED <<kind, remote, files, wanted, fresh>>
BeginPack(j) ==
  /\ kind = "pack" /\ job[j].step = "idle" /\ target["marker"] = NoFile
  /\ Put(j, [Idle EXCEPT !.step = "file", !.rev = remote,
                         !.fresh = \A f \in PackFiles : part[f] = NoFile /\ dest[f] = NoFile])
  /\ Racing(j) /\ UNCHANGED <<kind, remote, files, wanted, fresh>>

\* A pack that is in place already ends the job at once.
AlreadyPresent(j) ==
  /\ kind = "pack" /\ job[j].step = "idle" /\ target["marker"] # NoFile
  /\ UNCHANGED vars

\* download_mtplx_pack: on to the next file, or to the rename.
Onwards(j) ==
  [job[j] EXCEPT !.step = IF job[j].file < Len(Order(kind)) THEN "file" ELSE "rename",
                 !.file = IF @ < Len(Order(kind)) THEN @ + 1 ELSE @,
                 !.of = 0, !.pos = 0, !.mode = "wb", !.at = "closed"]

PresentByPart(f) == dest[f] # NoFile \/ part[f] # NoFile   \* mutant: a partial one counts
Present(f) == dest[f] # NoFile /\ Len(dest[f]) = Size(f)
FileSkip(j) ==
  /\ job[j].step = "file" /\ Present(File(j))
  /\ Put(j, Onwards(j))
  /\ UNCHANGED <<kind, remote, files, history>>
FileNeeded(j) ==
  /\ job[j].step = "file" /\ ~Present(File(j))
  /\ Put(j, [job[j] EXCEPT !.step = "ask"])
  /\ UNCHANGED <<kind, remote, files, history>>

------------------------------------------------------------------------------
(* stream_download_to_path *)

Downloaded(f) == IF part[f] = NoFile THEN 0 ELSE Len(part[f])

\* What is there already is not asked for again; a range that begins at the end of
\* the file is refused (416).
Ask(j) ==
  /\ job[j].step = "ask" /\ Downloaded(File(j)) < Size(File(j))
  /\ Put(j, [job[j] EXCEPT !.step = "open", !.of = IF job[j].rev = 0 THEN remote ELSE job[j].rev,
                           !.pos = Downloaded(File(j)), !.mode = IF Downloaded(File(j)) > 0 THEN "ab" ELSE "wb"])
  /\ UNCHANGED <<kind, remote, files, history>>
AskRefused(j) ==
  /\ job[j].step = "ask" /\ Downloaded(File(j)) >= Size(File(j))
  /\ Ended(j)
  /\ UNCHANGED <<kind, remote, files, history>>

Open(j) ==
  /\ job[j].step = "open"
  /\ part' = [part EXCEPT ![File(j)] = IF job[j].mode = "wb" \/ @ = NoFile THEN <<>> ELSE @]
  /\ Put(j, [job[j] EXCEPT !.step = "write", !.at = "part"])
  /\ UNCHANGED <<kind, remote, dest, target, history>>

\* One more chunk: at the end of the file, or where this writer is, past whatever
\* another job has cut off.
Written(content, pos, mode, rev) ==
  IF mode = "ab" THEN IF Len(content) < 2 THEN Append(content, rev) ELSE content
  ELSE [n \in 1..(IF Len(content) > pos THEN Len(content) ELSE pos + 1) |->
          IF n = pos + 1 THEN rev ELSE IF n <= Len(content) THEN content[n] ELSE 0]
Write(j) ==
  /\ job[j].step = "write" /\ job[j].pos < Size(File(j))
  /\ LET f == File(j)
         After(content) == Written(content, job[j].pos, job[j].mode, job[j].of)
     IN /\ part' = IF job[j].at = "part" THEN [part EXCEPT ![f] = After(@)] ELSE part
        /\ dest' = IF job[j].at = "dest" THEN [dest EXCEPT ![f] = After(@)] ELSE dest
        /\ target' = IF job[j].at = "target" THEN [target EXCEPT ![f] = After(@)] ELSE target
  /\ Put(j, [job[j] EXCEPT !.pos = @ + 1])
  /\ UNCHANGED <<kind, remote, history>>
\* The answer is over: http.client says nothing when that is before its
\* Content-Length.
EndOfAnswer(j) ==
  /\ job[j].step = "write"
  /\ Put(j, [job[j] EXCEPT !.step = IF kind = "gguf" THEN "check" ELSE "place", !.at = "closed"])
  /\ UNCHANGED <<kind, remote, files, history>>
\* The request, or a read, fails: the part stays.
NetworkFails(j) ==
  /\ job[j].step \in {"ask", "write"}
  /\ Ended(j)
  /\ UNCHANGED <<kind, remote, files, history>>

\* The part is unlinked; who has it open writes on, to no name.
Unlinked(f) ==
  [k \in Jobs |-> IF job[k].at = "part" /\ File(k) = f THEN [job[k] EXCEPT !.at = "gone"] ELSE job[k]]

HeaderOnly(content, expect) == content # <<>> /\ content[1] # 0   \* mutant: no SHA-256
\* A GGUF header, and the published SHA-256 if there is one.
Valid(content, expect) ==
  /\ content # <<>> /\ content[1] # 0
  /\ expect # 0 => content = Whole("gguf", expect)
CheckOk(j) ==
  /\ job[j].step = "check" /\ part["gguf"] # NoFile /\ Valid(part["gguf"], job[j].expect)
  /\ Put(j, [job[j] EXCEPT !.step = "place"])
  /\ UNCHANGED <<kind, remote, files, history>>
CheckFailsRetries(j) ==   \* mutant: what is rejected is downloaded again
  /\ job[j].step = "check" /\ (part["gguf"] = NoFile \/ ~Valid(part["gguf"], job[j].expect))
  /\ part' = [part EXCEPT !["gguf"] = NoFile]
  /\ job' = [Unlinked("gguf") EXCEPT ![j] = [Idle EXCEPT !.step = "ask", !.expect = job[j].expect]]
  /\ UNCHANGED <<kind, remote, dest, target, history>>
CheckFails(j) ==
  /\ job[j].step = "check" /\ (part["gguf"] = NoFile \/ ~Valid(part["gguf"], job[j].expect))
  /\ part' = [part EXCEPT !["gguf"] = NoFile]
  /\ job' = [Unlinked("gguf") EXCEPT ![j] = Idle]
  /\ UNCHANGED <<kind, remote, dest, target, history>>

\* tmp_path.replace(dest_path): what is open under either name stays open.
Place(j) ==
  /\ job[j].step = "place" /\ part[File(j)] # NoFile
  /\ LET f == File(j)
         moved == [k \in Jobs |->
           IF File(k) # f THEN job[k]
           ELSE IF job[k].at = "part" THEN [job[k] EXCEPT !.at = "dest"]
           ELSE IF job[k].at = "dest" THEN [job[k] EXCEPT !.at = "gone"]
           ELSE job[k]]
     IN /\ dest' = [dest EXCEPT ![f] = part[f]] /\ part' = [part EXCEPT ![f] = NoFile]
        /\ job' = [moved EXCEPT ![j] = IF kind = "gguf" THEN Idle ELSE Onwards(j)]
        /\ wanted' = IF kind = "gguf" THEN job[j].expect ELSE wanted
  /\ UNCHANGED <<kind, remote, target, raced, fresh>>
PlaceFails(j) ==
  /\ job[j].step = "place" /\ part[File(j)] = NoFile
  /\ Ended(j)
  /\ UNCHANGED <<kind, remote, files, history>>

------------------------------------------------------------------------------
(* staging.rename(target) *)

RenamePack(j) ==
  /\ job[j].step = "rename" /\ target = NoPack
  /\ target' = [f \in PackFiles |-> dest[f]]
  /\ part' = [f \in Files |-> NoFile] /\ dest' = [f \in Files |-> NoFile]
  /\ job' = [[k \in Jobs |->
       IF job[k].at = "part" THEN [job[k] EXCEPT !.at = "gone"]
       ELSE IF job[k].at = "dest" THEN [job[k] EXCEPT !.at = "target"] ELSE job[k]] EXCEPT ![j] = Idle]
  /\ fresh' = job[j].fresh
  /\ UNCHANGED <<kind, remote, raced, wanted>>
\* Another job's pack is there.
RenameFails(j) ==
  /\ job[j].step = "rename" /\ target # NoPack
  /\ Ended(j)
  /\ UNCHANGED <<kind, remote, files, history>>

------------------------------------------------------------------------------
(* The world *)

RepoMoves ==
  /\ remote < Revisions /\ remote' = remote + 1
  /\ UNCHANGED <<kind, files, job, history>>
\* The web server is stopped or restarted.
Restart ==
  /\ \E j \in Jobs : job[j].step # "idle"
  /\ job' = [j \in Jobs |-> Idle]
  /\ UNCHANGED <<kind, remote, files, history>>

Init ==
  /\ kind \in {"gguf", "pack"} /\ remote = 1
  /\ part = [f \in Files |-> NoFile] /\ dest = [f \in Files |-> NoFile] /\ target = NoPack
  /\ job = [j \in Jobs |-> Idle]
  /\ raced = FALSE /\ wanted = 0 /\ fresh = FALSE

Work(j) ==
  \/ FileSkip(j) \/ FileNeeded(j) \/ Ask(j) \/ AskRefused(j) \/ Open(j) \/ Write(j) \/ EndOfAnswer(j)
  \/ NetworkFails(j) \/ CheckOk(j) \/ CheckFails(j) \/ Place(j) \/ PlaceFails(j)
  \/ RenamePack(j) \/ RenameFails(j)
Next ==
  \/ \E j \in Jobs : BeginGguf(j) \/ BeginPack(j) \/ AlreadyPresent(j) \/ Work(j)
  \/ RepoMoves \/ Restart

Spec == Init /\ [][Next]_vars
\* A thread goes on: every request and read has a timeout.
FairSpec == Spec /\ \A j \in Jobs : WF_vars(Work(j))

------------------------------------------------------------------------------
(* Properties *)

TypeOK ==
  /\ kind \in {"gguf", "pack"} /\ remote \in Revs
  /\ part \in [Files -> Contents] /\ dest \in [Files -> Contents] /\ target \in [PackFiles -> Contents]
  /\ job \in [Jobs -> Job]
  /\ raced \in BOOLEAN /\ wanted \in 0..Revisions /\ fresh \in BOOLEAN
  /\ \A j \in Jobs : job[j].step = "write" <=> job[j].at # "closed"

\* The pickers never see a pack with a file missing, whatever jobs stage it at once.
NothingMissing == target # NoPack => \A f \in PackFiles : target[f] # NoFile

\* A GGUF that one job at a time has downloaded is the published one, in spite of
\* restarts, cut answers, resumed parts and a repository that moves meanwhile.
Published == ~raced /\ wanted # 0 => dest["gguf"] = Whole("gguf", wanted)

\* The revisions the chunks of the pack in place are of.
RevisionsInPlace == UNION {{target[f][n] : n \in DOMAIN target[f]} : f \in PackFiles}

\* A pack that one job staged from nothing is of one revision.
Pinned ==
  ~raced /\ fresh => Cardinality(RevisionsInPlace) <= 1

\* Every job ends.
JobsEnd == \A j \in Jobs : job[j].step # "idle" ~> job[j].step = "idle"

\* "Pinned to the commit the repo was at when the download began, so a pack cannot
\* change revision halfway": also when the download is resumed.
OneRevision ==
  target # NoPack /\ ~raced => Cardinality(RevisionsInPlace) <= 1

\* "an interrupted download resumes": what is there does not get it refused.
InterruptedResumes ==
  [][\A j \in Jobs : ~(AskRefused(j) /\ ~raced)]_vars

\* "the pickers never offer half a pack".
NeverHalfAPack ==
  target # NoPack /\ ~raced => \A f \in PackFiles : Len(target[f]) = Size(f)
=============================================================================
