------------------------------ MODULE ArchiveIngest ------------------------------
(***************************************************************************)
(* engine/ingest.py under POST /scans/upload: the body is written to a     *)
(* file chunk by chunk, its members are inspected one and all, and only    *)
(* then is anything extracted for the engine to scan.  What raises an      *)
(* IngestError is answered with 400 and a failed scan; any other exception *)
(* leaves the handler.                                                     *)
(***************************************************************************)
EXTENDS Integers, Sequences, FiniteSetsExt

CONSTANTS Archives,        \* what may be uploaded
          MaxUpload,       \* MAX_UPLOAD_BYTES
          MaxUncompressed, \* MAX_UNCOMPRESSED_BYTES
          MaxFiles,        \* MAX_FILE_COUNT
          MaxRatio,        \* MAX_COMPRESSION_RATIO
          Nothing          \* no archive: a target of the estate is scanned

(* An archive is a record: format, "zip", "tar" or what is neither;        *)
(* chunks, the bytes of each; entries, each with its size as it claims,    *)
(* the compressed one (zip), whether its path and the path it links to     *)
(* (Nothing: it is no link) stay below the directory; damaged, if reading  *)
(* a member fails with an exception of the library; and the tree it holds. *)

ASSUME IngestLimits == {MaxUpload, MaxUncompressed, MaxFiles, MaxRatio} \subseteq Nat
ASSUME NoArchive == Nothing \notin Archives

VARIABLES
    archive,    \* the archive that is uploaded, or Nothing
    chunk,      \* how many of its chunks have been written
    ingest      \* "receiving", "refused", "escaped", or "ready" for the engine

ingestVars == <<archive, chunk, ingest>>

IngestInit ==
    /\ archive \in Archives \cup {Nothing}
    /\ chunk = 0
    /\ ingest = IF archive = Nothing THEN "ready" ELSE "receiving"
-----------------------------------------------------------------------------
(* total_bytes after n chunks *)
Received(n) == MapThenSumSet(LAMBDA i : archive.chunks[i], 1..n)

(* async_compute_stream_hash_and_save; the handler awaits each chunk. *)
ReceiveChunk ==
    /\ ingest = "receiving"
    /\ chunk < Len(archive.chunks)
    /\ chunk' = chunk + 1
    /\ ingest' = IF Received(chunk') > MaxUpload THEN "refused" ELSE ingest
    /\ UNCHANGED archive

(* total_uncompressed with the n-th entry *)
Uncompressed(n) == MapThenSumSet(LAMBDA i : archive.entries[i].size, 1..n)

(* _is_suspicious_path and the resolution below the target directory, of   *)
(* the path of an entry and of the path it links to.                       *)
Outside(e) == e.path = "outside" \/ e.link = "outside"

(* No entry is written before all passed.  A zip gives the compressed size *)
(* of each; 0 is not asked about.                                          *)
_extract_zip_raises ==
    \/ Len(archive.entries) > MaxFiles
    \/ \E n \in DOMAIN archive.entries :
         LET e == archive.entries[n]
         IN  \/ Uncompressed(n) > MaxUncompressed
             \/ e.compressed > 0 /\ e.size > MaxRatio * e.compressed
             \/ Outside(e)

(* gzip wraps a whole tar: what it has claimed so far is held against the  *)
(* size of the file.                                                       *)
_extract_tar_raises ==
    LET compressed_size == Received(Len(archive.chunks))
    IN  \/ Len(archive.entries) > MaxFiles
        \/ \E n \in DOMAIN archive.entries :
             \/ Uncompressed(n) > MaxUncompressed
             \/ compressed_size > 0 /\ Uncompressed(n) > MaxRatio * compressed_size
             \/ Outside(archive.entries[n])

Rejected ==
    \/ archive.format \notin {"zip", "tar"}
    \/ archive.format = "zip" /\ _extract_zip_raises
    \/ archive.format = "tar" /\ _extract_tar_raises

(* safe_extract_archive *)
Extract ==
    /\ ingest = "receiving"
    /\ chunk = Len(archive.chunks)
    /\ ingest' = IF Rejected THEN "refused"
                 ELSE IF archive.damaged THEN "escaped" ELSE "ready"
    /\ UNCHANGED <<archive, chunk>>

IngestNext == ReceiveChunk \/ Extract
=============================================================================
