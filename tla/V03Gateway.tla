----------------------------- MODULE V03Gateway -----------------------------
(***************************************************************************)
(* The v0.3 requirements gateway (artpkg_v03): a requirement intake that   *)
(* is revised, the discovery work orders exported from it once it is       *)
(* approved, and the scope that a discovery run brings back, which is      *)
(* validated against the intake as it is by then.                          *)
(*                                                                         *)
(* The functions keep nothing between calls: what ties a scope to its      *)
(* requirement is the revision and the digest in the documents themselves, *)
(* and the digest covers the lineage, the digest of the revision before.   *)
(***************************************************************************)
EXTENDS Naturals

CONSTANTS
    Content,     \* what an intake may say: requirements, owners, approval
                 \* record, eligibility and open questions
    Sufficient,  \* the contents in which validation finds nothing missing
    MaxPackage   \* bound: revisions of the package

ASSUME GatewayAssumption ==
    /\ Sufficient \subseteq Content
    /\ MaxPackage \in Nat \ {0}

VARIABLES
    current,     \* the requirement authority of the intake document
    superseded,  \* the ones it had before
    package,     \* package_revision
    exported,    \* the authorities with an exported snapshot and DWO
    scopes       \* the evidence enriched scopes; bound: one

gatewayVars == <<current, superseded, package, exported, scopes>>

-----------------------------------------------------------------------------
\* Of the five statuses, those that are not approved are one.
Status == {"DRAFT", "APPROVED_FOR_DISCOVERY"}
Relation == {"SUPPORTS_SCOPE_INTERPRETATION", "REQUIRES_REQUIREMENT_REFINEMENT",
             "DERIVES_REQUIREMENT"}

\* sha256 tells payloads apart, and is taken to be no more than that.
Digest(authority) == <<authority>>
NoDigest == <<>>

\* new_requirement_intake
GatewayInit ==
    /\ \E c \in Content :
          current = [revision |-> 1, status |-> "DRAFT", content |-> c,
                     supersedes |-> NoDigest]
    /\ superseded = {}
    /\ package = 1
    /\ exported = {}
    /\ scopes = {}

\* revise_requirement_intake.  The changes may name any field of the authority,
\* its revision too, but not the lineage.
DropLineage(c, s, n) ==
    /\ package < MaxPackage
    /\ current' = [revision |-> n + 1, status |-> s, content |-> c, supersedes |-> NoDigest]
    /\ superseded' = superseded \cup {current}
    /\ package' = package + 1
    /\ UNCHANGED <<exported, scopes>>
Revise(c, s, n) ==
    /\ package < MaxPackage
    /\ current' = [revision |-> n + 1, status |-> s, content |-> c,
                   supersedes |-> Digest(current)]
    /\ superseded' = superseded \cup {current}
    /\ package' = package + 1
    /\ UNCHANGED <<exported, scopes>>

UpdateMetadata ==
    /\ package < MaxPackage
    /\ package' = package + 1
    /\ UNCHANGED <<current, superseded, exported, scopes>>

\* validate_requirement_intake, and its discovery_eligible.
Eligible(authority) ==
    authority.content \in Sufficient /\ authority.status = "APPROVED_FOR_DISCOVERY"

\* approved_requirement_snapshot, export_dwo
ExportDwo ==
    /\ Eligible(current)
    /\ exported' = exported \cup {current}
    /\ UNCHANGED <<current, superseded, package, scopes>>

\* new_evidence_enriched_scope is given a snapshot, a DWO, a run and a candidate
\* that may be lacking, and evidence.
NewScope(snapshot, dwo, lacking, evidence) ==
    /\ scopes = {}
    /\ scopes' = {[snapshot |-> snapshot, dwo |-> dwo, lacking |-> lacking,
                   evidence |-> evidence, approved |-> FALSE]}
    /\ UNCHANGED <<current, superseded, package, exported>>

\* The approver signs the scope.
ApproveScope ==
    /\ scopes' = {[s EXCEPT !.approved = TRUE] : s \in scopes}
    /\ UNCHANGED <<current, superseded, package, exported>>

GatewayNext ==
    \/ \E c \in Content, s \in Status, n \in 1..package : Revise(c, s, n)
    \/ UpdateMetadata
    \/ ExportDwo
    \/ \E snapshot, dwo \in exported, lacking \in BOOLEAN, evidence \in SUBSET Relation :
          NewScope(snapshot, dwo, lacking, evidence)
    \/ ApproveScope

GatewaySpec == GatewayInit /\ [][GatewayNext]_gatewayVars

-----------------------------------------------------------------------------
Bound(authority, wanted) ==
    /\ authority.revision = wanted.revision
    /\ Digest(authority) = Digest(wanted)

\* validate_evidence_enriched_scope
Disposition(scope) ==
    IF ~Eligible(current) \/ ~Bound(scope.snapshot, current)
    THEN "STALE_REQUIREMENT_BINDING"
    ELSE IF "REQUIRES_REQUIREMENT_REFINEMENT" \in scope.evidence
    THEN "REQUIREMENT_INSUFFICIENT"
    ELSE IF \/ ~Bound(scope.dwo, current)
            \/ scope.lacking
            \/ "DERIVES_REQUIREMENT" \in scope.evidence
            \/ ~scope.approved
    THEN "SCOPE_NOT_APPROVED"
    ELSE "PASS"

-----------------------------------------------------------------------------
\* A scope whose requirement was ever superseded stays stale, and one made with
\* a superseded work order never passes, even after the intake was revised back
\* to the same words, status and revision number ("must match the current
\* approved immutable snapshot").
SupersededStaysStale ==
    \A s \in scopes :
        /\ s.snapshot \in superseded => Disposition(s) = "STALE_REQUIREMENT_BINDING"
        /\ s.dwo \in superseded => Disposition(s) # "PASS"
=============================================================================
