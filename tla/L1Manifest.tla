------------------------------ MODULE L1Manifest ------------------------------
(***************************************************************************)
(* The L1 manifest of the cloud, a json text, as class L1Manifest reads it *)
(* (idcm/dlc/parse_manifest.cpp).  A field is told apart by what the code  *)
(* asks of it: whether it is there, is a string, and is empty.  A part     *)
(* that should be an object or an array is a record that says what it is.  *)
(***************************************************************************)
EXTENDS Naturals, Sequences

Absent == "(absent)"
NoString == "(no string)"   \* there, but a number, null, an object...
Empty == ""

IsString(field) == field \notin {Absent, NoString}

Object(fields) == [is |-> "object", of |-> fields]
Array(elements) == [is |-> "array", of |-> elements]
Missing == [is |-> "missing", of |-> <<>>]   \* absent, or of another type

\* IsWellFormated() of one package: what a delta needs is not looked at.
PackageIsWellFormated(package) ==
    /\ package.is = "object"
    /\ IsString(package.of.ecu) /\ IsString(package.of.softwareId)
    /\ package.of.resources.is = "object"
    /\ LET resource == package.of.resources.of IN
       /\ IsString(resource.fullLicense)
       /\ IsString(resource.fullCertificateUrl)
       /\ IsString(resource.fullDownloadChecksum)
       /\ IsString(resource.fullDownloadUrl)

IsWellFormated(L1) ==
    /\ IsString(L1.fotaProtocolVersion) /\ IsString(L1.fotaCertUrl)
    /\ L1.manifest.is = "object" /\ L1.manifest.of.is = "array"
    /\ LET packages == L1.manifest.of.of IN
       \A i \in 1..Len(packages) : PackageIsWellFormated(packages[i])

\* url_, cert_url_ and checksum_ of a Package, in the order they are read: of the full
\* package if it has a url, else of the delta.
DownloadFields(resource) ==
    IF resource.fullDownloadUrl # Empty
    THEN <<resource.fullDownloadUrl, resource.fullCertificateUrl,
           resource.fullDownloadChecksum>>
    ELSE <<resource.deltaDownloadUrl, resource.deltaCertificateUrl,
           resource.deltaChecksum>>

\* GetDownloadPackages() of a well-formed manifest: one Package for each.
GetDownloadPackages(L1) ==
    LET packages == L1.manifest.of.of IN
    [i \in 1..Len(packages) |-> DownloadFields(packages[i].of.resources.of)]

\* How it ends: a field that is no string throws, an empty one is asserted not to be,
\* as is the list itself; the first one met decides.
Outcome(L1, NDEBUG) ==
    LET read == GetDownloadPackages(L1)
        Throws(i, f) == ~IsString(read[i][f])
        Asserts(i, f) == ~NDEBUG /\ read[i][f] = Empty
        places == {p \in (1..Len(read)) \X (1..3) : Throws(p[1], p[2]) \/ Asserts(p[1], p[2])}
        first == CHOOSE p \in places : \A q \in places :
                    p[1] < q[1] \/ (p[1] = q[1] /\ p[2] <= q[2])
    IN IF places # {} THEN IF Throws(first[1], first[2]) THEN "throws" ELSE "aborts"
       ELSE IF ~NDEBUG /\ read = <<>> THEN "aborts" ELSE "packages"

=============================================================================
