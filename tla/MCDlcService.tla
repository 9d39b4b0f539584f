---------------------------- MODULE MCDlcService ----------------------------
(***************************************************************************)
(* Small instances of DlcService.                                          *)
(***************************************************************************)
EXTENDS DlcService, TLC

\* A package with all its fields, and ways in which they may differ.
Resource ==
    [fullLicense |-> "f", fullCertificateUrl |-> "f", fullDownloadChecksum |-> "f",
     fullDownloadUrl |-> "f", deltaDownloadUrl |-> "d", deltaCertificateUrl |-> "d",
     deltaChecksum |-> "d"]
DeltaOnly == [Resource EXCEPT !.fullDownloadUrl = Empty]
NoUrl == [DeltaOnly EXCEPT !.deltaDownloadUrl = Absent]

Package(resource) ==
    Object([ecu |-> "e", softwareId |-> "s", resources |-> Object(resource)])

Request(packages) ==
    [is |-> "request",
     of |-> [fotaProtocolVersion |-> "v", fotaCertUrl |-> "c", manifest |-> Object(Array(packages))]]

NoId == [Package(Resource) EXCEPT !.of.softwareId = Absent]

Texts ==
    "L1" :> Request(<<Package(Resource), Package(DeltaOnly)>>)
    @@ "L2" :> Request(<<>>)
    @@ "no url" :> Request(<<Package(Resource), Package(NoUrl)>>)
    @@ "no id" :> Request(<<NoId>>)
    @@ "text" :> [is |-> "no json"]
    @@ "other" :> [is |-> "other json"]

AllMessages == {"L1", "L2", "no url", "no id", "text", "other"}
OneMessage == {"L1"}

NoNews == <<>>
TwoStatuses == <<"UpdateStatus", "UpdateStatus">>
=============================================================================
