------------------------------- MODULE Fetcher -------------------------------
(***************************************************************************)
(* BrowserFetcher::fetch (src/chromiumoxide_fetcher/src/fetcher/mod.rs and *)
(* runtime/): the archive is downloaded beside the folder of the           *)
(* installation and extracted into it, entry by entry, in place.  The      *)
(* network and the disk may fail at every step, the process may stop at    *)
(* every step, and what counts as installed on the next run is that the    *)
(* executable exists.                                                      *)
(***************************************************************************)
EXTENDS Integers

CONSTANTS
  Entries,     \* entries of the archive, each with its part of the archive's bytes
  Executable,  \* the entry that is the executable
  MaxFetches   \* bound: calls of fetch

ASSUME FetcherAssumption ==
  Entries \in Nat \ {0} /\ Executable \in 1 .. Entries /\ MaxFetches \in Nat

VARIABLES
  fetch,      \* "idle", "downloading", "extracting", "fetched" or "failed"
  archive,    \* parts of the archive that are in its file, 0 if there is none
  files,      \* the entries in the folder: "absent", "partial" or "whole"
  copied,     \* steps of the extraction: each entry is created and then copied
  fetches,    \* calls of fetch, for the bound
  spoiled     \* an extraction stopped half way and the cache was not mended since

fetcherVars == <<fetch, archive, files, copied, fetches, spoiled>>

Absent == [e \in 1 .. Entries |-> "absent"]

FetcherInit ==
  fetch = "idle" /\ archive = 0 /\ files = Absent /\ copied = 0 /\ fetches = 0 /\ spoiled = FALSE

Running == {"downloading", "extracting"}

\* Mutant of Local: the archive is looked for.
LocalArchive == archive > 0 \/ files[Executable] # "absent"

Local == files[Executable] # "absent"

\* BrowserFetcher::fetch.  What is left of an archive is truncated.
Fetch ==
  /\ fetch \in {"idle", "failed"} /\ fetches < MaxFetches
  /\ fetches' = fetches + 1
  /\ IF Local THEN fetch' = "fetched" /\ UNCHANGED archive
              ELSE fetch' = "downloading" /\ archive' = 0
  /\ UNCHANGED <<files, copied, spoiled>>

\* Runtime::download_file: a chunk of the response, or the end of it.
Download ==
  /\ fetch = "downloading"
  /\ IF archive < Entries
     THEN archive' = archive + 1 /\ UNCHANGED <<fetch, copied>>
     ELSE fetch' = "extracting" /\ copied' = 0 /\ UNCHANGED archive
  /\ UNCHANGED <<files, fetches, spoiled>>

\* do_unzip: the entries in turn.  File::create truncates the one that is there.
Extract ==
  /\ fetch = "extracting" /\ copied < 2 * Entries
  /\ files' = [files EXCEPT ![copied \div 2 + 1] = IF copied % 2 = 0 THEN "partial" ELSE "whole"]
  /\ copied' = copied + 1
  /\ UNCHANGED <<fetch, archive, fetches, spoiled>>

\* The archive is removed; an error in that is ignored.
Extracted ==
  /\ fetch = "extracting" /\ copied = 2 * Entries
  /\ fetch' = "fetched" /\ archive' \in {0, archive} /\ spoiled' = FALSE
  /\ UNCHANGED <<files, copied, fetches>>

\* DownloadFailed and InstallFailed, and the end of the process, which is "idle".
FetchStops(as) ==
  /\ fetch \in Running
  /\ fetch' = as /\ spoiled' = (spoiled \/ fetch = "extracting")
  /\ UNCHANGED <<archive, files, copied, fetches>>

\* The advice of fetch's documentation (external).
Wipes ==
  /\ fetch \in {"idle", "failed"} /\ spoiled
  /\ archive' = 0 /\ files' = Absent /\ spoiled' = FALSE
  /\ UNCHANGED <<fetch, copied, fetches>>

=============================================================================
