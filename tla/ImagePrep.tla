------------------------------ MODULE ImagePrep ------------------------------
(***************************************************************************)
(* prepare_image.prepare: the cloud image of the lab's VMs is downloaded   *)
(* next to its place, verified, renamed into place and then customized in  *)
(* place with virt-customize, which puts the tests' SSH key into it.       *)
(*                                                                         *)
(* One run at a time; a run may die at any step and leaves its files.  A   *)
(* file is known by the release it was downloaded from, by whether it is   *)
(* whole, and by whether it has the key.  The mirror publishes new         *)
(* releases under the same name whenever it likes.                         *)
(***************************************************************************)
EXTENDS Integers

CONSTANT MaxRelease   \* bound on the releases the mirror publishes

ASSUME ReleaseAssumption == MaxRelease \in Nat \ {0}

VARIABLES
  mirror,  \* the release the mirror serves
  out,     \* the file at out_path
  tmp,     \* the file at out_path.with_suffix(".tmp")
  tool,    \* whether virt-customize is installed
  keyFile, \* whether tests/e2e/fixtures/test_vm_key.pub is there
  prep     \* the run: its arguments, local variables and result

files     == <<out, tmp>>
imageVars == <<mirror, files, tool, keyFile, prep>>

Releases == 1 .. MaxRelease

\* data: part of a release, a whole one, or one that virt-customize was killed
\* over.
NoFile  == [is |-> FALSE, rel |-> 0, data |-> "part", keyed |-> FALSE]
FileSet == [is : {TRUE}, rel : Releases, data : {"part", "whole", "torn"}, keyed : BOOLEAN]
             \cup {NoFile}

\* sum: the release whose digest SHA256SUMS gave.
NoRun == [pc |-> "idle", customize |-> FALSE, sum |-> 0, result |-> "none"]

ImageInit ==
  /\ mirror = 1 /\ out = NoFile /\ tmp = NoFile
  /\ tool = FALSE /\ keyFile = FALSE /\ prep = NoRun

-----------------------------------------------------------------------------
Goto(pc)     == prep' = [prep EXCEPT !.pc = pc]
Returns(res) == prep' = [prep EXCEPT !.pc = "idle", !.sum = 0, !.result = res]

\* prepare(): an image that is there is good enough, unless --force.
Prepare(customize, force) ==
  LET run == [NoRun EXCEPT !.customize = customize] IN
  /\ prep.pc = "idle"
  /\ prep' = IF out.is /\ ~force THEN [run EXCEPT !.result = "ready"]
                                 ELSE [run EXCEPT !.pc = "sums"]
  /\ UNCHANGED <<mirror, files, tool, keyFile>>

\* _fetch_text, _extract_sha256.
FetchSums ==
  /\ prep.pc = "sums"
  /\ prep' = [prep EXCEPT !.pc = "open", !.sum = mirror]
  /\ UNCHANGED <<mirror, files, tool, keyFile>>

\* _fetch_file: the response is one release from its first byte to its last ...
OpenTmp ==
  /\ prep.pc = "open"
  /\ Goto("copy")
  /\ tmp' = [is |-> TRUE, rel |-> mirror, data |-> "part", keyed |-> FALSE]
  /\ UNCHANGED <<mirror, out, tool, keyFile>>

\* ... but may be cut off without an error.
EndCopy ==
  /\ prep.pc = "copy"
  /\ Goto("verify")
  /\ \E d \in {"part", "whole"} : tmp' = [tmp EXCEPT !.data = d]
  /\ UNCHANGED <<mirror, out, tool, keyFile>>

\* A download failed (NetworkError), or the sums do not name the image.  From the
\* image's download on there is a try around it, and .tmp is removed.
DownloadFails ==
  /\ prep.pc \in {"sums", "open", "copy"}
  /\ Returns("failed")
  /\ tmp' = IF prep.pc = "sums" THEN tmp ELSE NoFile
  /\ UNCHANGED <<mirror, out, tool, keyFile>>

\* actual_sha == expected_sha.  Faulty variant: only the name is compared.
DigestMatches_AnyBytes == tmp.is
DigestMatches          == tmp.is /\ tmp.data = "whole" /\ tmp.rel = prep.sum

VerifyDigest ==
  /\ prep.pc = "verify"
  /\ \/ DigestMatches /\ Goto("rename") /\ UNCHANGED tmp
     \/ ~DigestMatches /\ Returns("failed") /\ tmp' = NoFile
  /\ UNCHANGED <<mirror, out, tool, keyFile>>

Rename ==
  /\ prep.pc = "rename"
  /\ out' = tmp /\ tmp' = NoFile
  /\ IF prep.customize THEN Goto("customize") ELSE Returns("ready")
  /\ UNCHANGED <<mirror, tool, keyFile>>

\* One call of virt-customize: the key, if there is one to inject, is the last
\* thing it does, so a call that failed may or may not have done it.  Faulty
\* variant: the call without --install leaves the key out too.
Customized_InstallOnly(ok) ==
  out' = [out EXCEPT !.keyed = @ \/ (ok /\ keyFile /\ prep.pc = "customize")]
Customized(ok) ==
  \/ out' = [out EXCEPT !.keyed = @ \/ keyFile]
  \/ ~ok /\ UNCHANGED out

\* _run_virt_customize: without the tool a warning; after a failure once more
\* without --install; then VirtCustomizeError, with the image left in place.
VirtCustomize ==
  /\ prep.pc \in {"customize", "retry"}
  /\ \/ prep.pc = "customize" /\ ~tool /\ Returns("ready") /\ UNCHANGED out
     \/ tool /\ Customized(TRUE) /\ Returns("ready")
     \/ /\ tool /\ Customized(FALSE)
        /\ IF prep.pc = "customize" THEN Goto("retry") ELSE Returns("failed")
  /\ UNCHANGED <<mirror, tmp, tool, keyFile>>

\* The process is killed.  What virt-customize had half written stays.
Die ==
  /\ prep.pc # "idle" /\ Returns("died")
  /\ \/ UNCHANGED out
     \/ /\ prep.pc \in {"customize", "retry"} /\ tool
        /\ \E k \in {out.keyed, out.keyed \/ keyFile} :
             out' = [out EXCEPT !.data = "torn", !.keyed = k]
  /\ UNCHANGED <<mirror, tmp, tool, keyFile>>

NewRelease ==
  /\ mirror < MaxRelease /\ mirror' = mirror + 1
  /\ UNCHANGED <<files, tool, keyFile, prep>>

PrepStep == FetchSums \/ OpenTmp \/ EndCopy \/ DownloadFails \/ VerifyDigest \/ Rename
              \/ VirtCustomize

-----------------------------------------------------------------------------
ImageTypeOK ==
  /\ mirror \in Releases /\ out \in FileSet /\ tmp \in FileSet
  /\ tool \in BOOLEAN /\ keyFile \in BOOLEAN
  /\ prep \in [pc : {"idle", "sums", "open", "copy", "verify", "rename", "customize", "retry"},
               customize : BOOLEAN, sum : 0 .. MaxRelease,
               result : {"none", "ready", "failed", "died"}]

\* What is in place is a complete release, whatever was cut off, replaced on the
\* mirror or left behind by a run that died (download to .tmp, verify, rename).
VerifiedImage == out.is => out.data # "part"

\* A run that did not find an image in place and says that it is ready has put
\* the tests' key into it, if --prepare was given and tool and key are there;
\* also when only the call without --install succeeded.
PreparedHasKey ==
  [][ /\ prep.pc # "idle" /\ prep'.pc = "idle" /\ prep'.result = "ready"
      /\ prep.customize /\ tool /\ keyFile
      => out'.keyed /\ out'.data = "whole" ]_imageVars
=============================================================================
