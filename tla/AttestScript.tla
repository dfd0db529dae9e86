----------------------------- MODULE AttestScript -----------------------------
(***************************************************************************)
(* attest_source.sh: a developer's request for a verification of the       *)
(* package in the current directory, from the checks of the checkout to    *)
(* the transaction that records the answer.                                *)
(*                                                                         *)
(*  - The developer works on the package, then runs the script and waits.  *)
(*    Others move and delete branches of the remote at any time.           *)
(*  - `origin`'s branches as the checkout knows them are `tracking`; a     *)
(*    fetch that fails only warns, and one that succeeds keeps the         *)
(*    branches that were deleted.                                          *)
(*  - The enclave clones the remote as it is when it answers.  It may also *)
(*    fail for reasons of its own.                                         *)
(*  - Meanwhile the contract's configuration may be rotated, and until it  *)
(*    answers the enclave may be restarted, which gives it another key.    *)
(*  - The script submits the response, each String field as a literal in   *)
(*    quotes.  (Into the script it came through shlex.quote and eval, of   *)
(*    which one undoes the other.)  Anyone who has seen the response may   *)
(*    submit it too, with any arguments: Tried bounds them.                *)
(* One run of the script; the working tree is what `source-hash` makes of  *)
(* it: the content of the tracked files, and whether there is a source     *)
(* file that git does not track.                                           *)
(***************************************************************************)
EXTENDS Wire

CONSTANTS
    Commits,       \* commits of the repository
    Content,       \* commit -> the content of its tracked files
    Before,        \* commit -> the commits reachable from it, itself included
    Branches,      \* branches of origin
    Origins,       \* forms of origin's URL: "https", "scp", "ssh" or another
    Verifies,      \* the contents that are what is on chain
    AddressTexts,  \* what verify-source may report as the package's address
    Timestamps,
    Texts,         \* values of the String fields
    HashText,      \* content -> its source hash, as text
    ShaText,       \* commit -> its sha, as text
    UrlTexts, SubdirTexts,  \* what origin's URL and the directory may be
    VersionText, DigestText,
    Quote,         \* the byte of '
    Tried,         \* the payloads others submit
    None

Contents == {Content[c] : c \in Commits}
Package  == [tracked : Contents, untracked : BOOLEAN]
Payload  == [pkg_id : ObjectId, source_hash : Texts, git_url : Texts, subdir : Texts,
             git_sha : Texts, toolchain_version : Texts, toolchain_digest : Texts]
TextFields == {"source_hash", "git_url", "subdir", "git_sha", "toolchain_version",
               "toolchain_digest"}
Objects == [current : BOOLEAN, signs : BOOLEAN]
VERIFY_SCOPE == 0

ASSUME ScriptAssumption ==
    /\ \A c \in Commits : c \in Before[c] /\ None # c
    /\ \A s \in Texts : s \in Seq(Byte) /\ Len(s) \in Byte
    /\ {HashText[x] : x \in Contents} \cup {ShaText[c] : c \in Commits} \subseteq Texts
    /\ UrlTexts \cup SubdirTexts \cup {VersionText, DigestText} \subseteq Texts
    /\ Quote \in Byte /\ Tried \subseteq Payload
    /\ AddressTexts \subseteq Seq(0 .. X)
    /\ \A t \in Timestamps : BcsU64(t) \in Seq(Byte)  \* a u64 is its bytes
    /\ \A t, u \in Timestamps : BcsU64(t) = BcsU64(u) => t = u

VARIABLES
    package,   \* the working tree of the package
    head,      \* HEAD
    origin,    \* the form of origin's URL
    remote,    \* the remote's branches: branch -> commit, or None
    tracking,  \* refs/remotes/origin: branch -> commit, or None
    pc,        \* where the script is
    GIT_REV,
    object,    \* what ENCLAVE_OBJECT_ID names: is it of the config's version, and
               \* of the key that signs
    response,  \* the enclave's response, None before
    recorded,  \* what the contract recorded, None before
    (* History, read by no action. *)
    checked,   \* the working tree that passed the checks
    reported   \* the address verify-source reported for the response

repository == <<package, head, origin, remote, tracking>>
scriptVars == <<repository, pc, GIT_REV, object, response, recorded, checked, reported>>

Steps == {"edit", "diff", "fetch", "contains", "ask", "submit", "done", "died",
          "unreadable", "rejected"}
Refs  == [Branches -> Commits \cup {None}]

ScriptTypeOK ==
    /\ package \in Package /\ head \in Commits /\ origin \in Origins
    /\ remote \in Refs /\ tracking \in Refs
    /\ pc \in Steps
    /\ GIT_REV \in Commits \cup {None}
    /\ object \in Objects
    /\ response # None => response.data \in Payload
    /\ recorded # None => recorded.data \in Payload
    /\ checked \in Package \cup {None}
    /\ reported \in AddressTexts \cup {None}

ScriptInit ==
    /\ head \in Commits
    /\ package = [tracked |-> Content[head], untracked |-> FALSE]
    /\ origin \in Origins
    /\ remote \in Refs
    /\ tracking = remote
    /\ pc = "edit"
    /\ object = [current |-> TRUE, signs |-> TRUE]
    /\ GIT_REV = None /\ response = None /\ recorded = None
    /\ checked = None /\ reported = None

Goto(step) == pc' = step
Dies       == Goto("died") /\ UNCHANGED <<GIT_REV, response, recorded, checked, reported>>

-----------------------------------------------------------------------------
(* The developer, before the script runs, and everyone else *)

Develop ==
    /\ pc = "edit"
    /\ \/ /\ \E x \in Contents : package' = [package EXCEPT !.tracked = x]
          /\ UNCHANGED <<head, remote, tracking>>
       \/ /\ package' = [package EXCEPT !.untracked = TRUE]
          /\ UNCHANGED <<head, remote, tracking>>
       \/ \E c \in Commits :  \* commit
              /\ head \in Before[c] /\ Content[c] = package.tracked
              /\ head' = c
              /\ UNCHANGED <<package, remote, tracking>>
       \/ \E b \in Branches :  \* push
              /\ remote' = [remote EXCEPT ![b] = head]
              /\ tracking' = [tracking EXCEPT ![b] = head]
              /\ UNCHANGED <<package, head>>
    /\ UNCHANGED <<origin, pc, GIT_REV, object, response, recorded, checked, reported>>

OthersPush(b, c) ==
    /\ remote' = [remote EXCEPT ![b] = c]
    /\ UNCHANGED <<package, head, origin, tracking, pc, GIT_REV, object, response,
                   recorded, checked, reported>>

(* `update_pcrs`, and a restart of the enclave: neither can be undone for  *)
(* the object.  (What happened before the script asks shows only then.)    *)
ObjectAges ==
    /\ pc \in {"ask", "submit"}
    /\ \/ object' = [object EXCEPT !.current = FALSE]
       \/ pc = "ask" /\ object' = [object EXCEPT !.signs = FALSE]
    /\ UNCHANGED <<repository, pc, GIT_REV, response, recorded, checked, reported>>

-----------------------------------------------------------------------------
(* The checks *)

RevParse ==
    /\ pc = "edit"
    /\ GIT_REV' = head
    /\ Goto("diff")
    /\ UNCHANGED <<repository, object, response, recorded, checked, reported>>

(* `git diff --quiet HEAD -- .` looks at tracked files only. *)
DiffQuiet == package.tracked = Content[head]

Diff ==
    /\ pc = "diff"
    /\ \/ /\ DiffQuiet
          /\ checked' = package
          /\ Goto("fetch")
          /\ UNCHANGED <<GIT_REV, response, recorded, reported>>
       \/ ~DiffQuiet /\ Dies
    /\ UNCHANGED <<repository, object>>

(* `git fetch origin`, without --prune; or a warning. *)
Fetch ==
    /\ pc = "fetch"
    /\ tracking' \in {tracking,
                      [b \in Branches |-> IF remote[b] = None THEN tracking[b] ELSE remote[b]]}
    /\ Goto("contains")
    /\ UNCHANGED <<package, head, origin, remote, GIT_REV, object, response, recorded,
                   checked, reported>>

OnBranch(refs, c) == \E b \in Branches : refs[b] # None /\ c \in Before[refs[b]]

(* `git branch -r --contains` *)
Contained ==
    /\ pc = "contains"
    /\ \/ OnBranch(tracking, GIT_REV) /\ Goto("ask")
            /\ UNCHANGED <<GIT_REV, response, recorded, checked, reported>>
       \/ ~OnBranch(tracking, GIT_REV) /\ Dies
    /\ UNCHANGED <<repository, object>>

-----------------------------------------------------------------------------
(* The enclave *)

(* The two sed rules. *)
Rewritten(url) == IF url \in {"scp", "ssh"} THEN "https" ELSE url

(* The commit that `git checkout` of the request's revision finds in the   *)
(* clone, if it does; the slip asks for a branch.                          *)
TipOfABranch == IF \E b \in Branches : remote[b] # None
                THEN remote[CHOOSE b \in Branches : remote[b] # None] ELSE None
FoundCommit  == IF OnBranch(remote, GIT_REV) THEN GIT_REV ELSE None

Verified(c) == Rewritten(origin) = "https" /\ c # None /\ Content[c] \in Verifies

Answer(text, ts, url, subdir) ==
    LET c == FoundCommit
        data == [pkg_id |-> parse_pkg_id(text), source_hash |-> HashText[Content[c]],
                 git_url |-> url, subdir |-> subdir, git_sha |-> ShaText[c],
                 toolchain_version |-> VersionText, toolchain_digest |-> DigestText]
    IN
    /\ pc = "ask" /\ Verified(c)
    /\ parse_pkg_id(text) # Error
    /\ response' = [timestamp_ms |-> ts, data |-> data,
                    signature |-> HexEncode(SignedBytes(VERIFY_SCOPE, ts, data))]
    /\ reported' = text
    /\ Goto("submit")
    /\ UNCHANGED <<repository, GIT_REV, object, recorded, checked>>

(* The enclave refuses, fails or cannot be reached. *)
NoAnswer == pc = "ask" /\ Dies /\ UNCHANGED <<repository, object>>

-----------------------------------------------------------------------------
(* The transaction *)

(* `verify_signature`: the signature is of the rebuilt bytes. *)
VerifySignature(signature, ts, args) == signature = RebuiltBytes(VERIFY_SCOPE, ts, args)

(* `attest_source`: it aborts unless the object is of the config's version *)
(* and the signature of the object's key.                                  *)
AttestSource(obj, signature, ts, args) ==
    /\ obj.current
    /\ obj.signs /\ VerifySignature(signature, ts, args)

(* A word of the command line, and the text that `sui client ptb` reads in *)
(* it, if it is one literal.                                               *)
PtbLiteral(text)  == <<Quote>> \o (text \o <<Quote>>)
ReadLiteral(word) == LET text == SubSeq(word, 2, Len(word) - 1) IN
                     IF Quote \in ToSet(text) THEN Error ELSE text

(* The script's arguments: `pkg_id` becomes an address literal, and the    *)
(* signature a vector of bytes.                                            *)
PkgIdLiteral == OxPrefix \o HexEncode(response.data.pkg_id)
SigVec       == HexDecode(response.signature)
ScriptArgs   ==
    [f \in TextFields \cup {"pkg_id"} |->
        IF f = "pkg_id" THEN parse_pkg_id(PkgIdLiteral)
        ELSE ReadLiteral(PtbLiteral(response.data[f]))]

Readable == \A f \in TextFields : ScriptArgs[f] # Error

Submit ==
    /\ pc = "submit"
    /\ \/ ~Readable /\ Goto("unreadable") /\ UNCHANGED recorded
       \/ /\ Readable
          /\ AttestSource(object, SigVec, response.timestamp_ms, ScriptArgs)
          /\ recorded' = [timestamp_ms |-> response.timestamp_ms, data |-> ScriptArgs]
          /\ Goto("done")
       \/ /\ Readable
          /\ ~AttestSource(object, SigVec, response.timestamp_ms, ScriptArgs)
          /\ Goto("rejected")
          /\ UNCHANGED recorded
    /\ UNCHANGED <<repository, GIT_REV, object, response, checked, reported>>

(* --no-attest, or an unset variable. *)
StopWithResponse ==
    /\ pc = "submit"
    /\ Goto("done")
    /\ UNCHANGED <<repository, GIT_REV, object, response, recorded, checked, reported>>

(* Others call the contract as they like, with any registered enclave. *)
OthersSubmit(obj, ts, args) ==
    /\ response # None /\ recorded = None /\ pc # "submit"
    /\ AttestSource(obj, SigVec, ts, args)
    /\ recorded' = [timestamp_ms |-> ts, data |-> args]
    /\ UNCHANGED <<repository, pc, GIT_REV, object, response, checked, reported>>

ScriptNext ==
    \/ Develop
    \/ \E b \in Branches, c \in Commits \cup {None} : OthersPush(b, c)
    \/ RevParse \/ Diff \/ Fetch \/ Contained
    \/ \E text \in AddressTexts, ts \in Timestamps, url \in UrlTexts, subdir \in SubdirTexts :
            Answer(text, ts, url, subdir)
    \/ ObjectAges
    \/ NoAnswer \/ Submit \/ StopWithResponse
    \/ \E obj \in Objects, ts \in Timestamps, args \in Tried : OthersSubmit(obj, ts, args)

ScriptSpec == ScriptInit /\ [][ScriptNext]_scriptVars

-----------------------------------------------------------------------------
(* Properties *)

(* What is attested is about the commit and the tracked files the script   *)
(* checked, although branches move and disappear between its checks and    *)
(* the enclave's clone, and the check of the branches may be stale.        *)
AnswerIsAboutTheCheckedCommit ==
    response # None =>
        /\ response.data.git_sha = ShaText[head]
        /\ response.data.source_hash = HashText[checked.tracked]

(* An address that an enclave signs is, as a number, the one verify-source *)
(* reported, in whatever short or long form, and anything that is not an   *)
(* address of IdBytes bytes is refused.                                    *)
PkgIdIsTheReportedAddress ==
    response # None =>
        LET hex == StripPrefix(reported) IN
        /\ X \notin ToSet(hex)
        /\ NumberOf(response.data.pkg_id, Base * Base) = NumberOf(hex, Base)

(* An enclave's response survives the conversions of the script and the    *)
(* contract's own declaration of the payload: the contract aborts only if  *)
(* the object is of an old version or another key, and the client only     *)
(* refuses the command line if some text of the response holds a quote.    *)
RefusalsHaveACause ==
    /\ pc = "rejected" => ~object.current \/ ~object.signs
    /\ pc = "unreadable" => \E f \in TextFields : Quote \in ToSet(response.data[f])

(* The bytes signed can be read in one way only: whoever submits the       *)
(* signature, and with whatever arguments, what the contract accepts is    *)
(* field by field what the enclave put into its response.                  *)
AcceptedIsWhatWasSigned ==
    recorded # None => /\ recorded.timestamp_ms = response.timestamp_ms
                       /\ recorded.data = response.data

(* "The checks below exist to stop the two ways that silently diverges:    *)
(* uncommitted changes, and a commit you have not pushed": what an answer  *)
(* is about is all of the package that was in front of the developer.      *)
AnswerIsAboutTheTree == response # None => ~checked.untracked

=============================================================================
