---------------------------- MODULE PackageFile ----------------------------
(***************************************************************************)
(* The local copy of a package, as the downloaders see it: a file opened   *)
(* in append mode, whose bytes are told apart only by what they are a      *)
(* prefix of.  `of` is the package whose first `len` bytes the file holds, *)
(* or Garbage when the bytes are those of no package.  `writers` are the   *)
(* streams open on the inode that the path names now: removing the path    *)
(* leaves an open stream writing to an inode nobody will read.             *)
(***************************************************************************)
EXTENDS Naturals

CONSTANTS
    Packages,   \* packages on the https server, one uri each
    Garbage,    \* the content that is no package's
    Size,       \* [Packages -> bytes], DownloadFile::size_
    Files,      \* local paths
    LocalFile   \* [Packages -> Files]: the directory / filename of the uri

ASSUME GarbageAssumption == Garbage \notin Packages
ASSUME SizeAssumption == Size \in [Packages -> Nat \ {0}]
ASSUME LocalFileAssumption == LocalFile \in [Packages -> Files]

Contents == Packages \cup {Garbage}

\* A path nobody has created, or that boostfs::remove() has taken away.
NoFile == [exists |-> FALSE, len |-> 0, of |-> Garbage, writers |-> {}]

\* A file left by an earlier run, with no stream open on it.
Leftover(n, c) == [exists |-> TRUE, len |-> n, of |-> c, writers |-> {}]

PrefixOf(f, c) == f.len = 0 \/ f.of = c

\* fopen(file, "a"): created if missing, never truncated.
Opened(f, w) == [f EXCEPT !.exists = TRUE, !.writers = @ \cup {w}]

Closed(f, w) == [f EXCEPT !.writers = @ \ {w}]

\* fwrite() of the byte number pos of content c.  O_APPEND puts it at the end,
\* wherever the writer believes the end to be.
Written(f, w, c, pos) ==
    IF w \in f.writers
    THEN [f EXCEPT !.len = @ + 1,
                   !.of = IF PrefixOf(f, c) /\ f.len = pos THEN c ELSE Garbage]
    ELSE f

\* md5sum(file) == checksum: the bytes are exactly those of the package.
Md5Good(f, p) == f.exists /\ f.len = Size[p] /\ f.of = p

=============================================================================
