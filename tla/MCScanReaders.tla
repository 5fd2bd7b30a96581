------------------------------ MODULE MCScanReaders ------------------------------
(* Trees with every kind of file: a source file with two findings, one of  *)
(* another language with none, binaries with and without sections, a file  *)
(* that is too large, one that cannot be read, and one below venv.         *)
EXTENDS ScanReaders

File(suffix, kinds, sections, constants, oversized, readable) ==
    [dirs |-> {"app"}, suffix |-> suffix,
     hits |-> [d \in Detectors |-> IF d = Detector(suffix) THEN kinds ELSE <<>>],
     sections |-> sections, constants |-> constants,
     oversized |-> oversized, readable |-> readable]

Py == File(".py", <<"rsa", "md5">>, <<>>, {}, FALSE, TRUE)
Go == File(".go", <<>>, <<>>, {}, FALSE, TRUE)
Exe == File(".exe", <<>>, <<{"aes_sbox"}, {}>>, {"aes_sbox", "sha256_k"}, FALSE, TRUE)
Raw == File(".bin", <<>>, <<>>, {"aes_sbox", "md5_t"}, FALSE, TRUE)
Huge == File(".c", <<>>, <<>>, {}, TRUE, TRUE)
Secret == File(".rs", <<>>, <<>>, {}, FALSE, FALSE)
Venv == [Py EXCEPT !.dirs = {"venv"}]

MCTrees == {<<Py, Go, Exe>>, <<Go, Raw, Py>>, <<Huge, Py, Venv, Secret>>, <<Venv>>}
MCDetected == {"rsa", "md5", "aes_sbox", "sha256_k", "md5_t"}
MCPaths == [d \in MCDetected |-> IF d \in {"rsa", "md5"} THEN "a.py" ELSE "b.exe"]

(* Uploads: one that is scanned, one that breaks when it is extracted, and *)
(* one for each way to be refused.                                         *)
Entry(size, compressed) ==
    [size |-> size, compressed |-> compressed, path |-> "inside", link |-> Nothing]
ZipFile == [format |-> "zip", chunks |-> <<2, 1>>, damaged |-> FALSE,
        entries |-> <<Entry(2, 2), Entry(3, 1)>>, tree |-> <<Py>>]
TarFile == [ZipFile EXCEPT !.format = "tar", !.chunks = <<1>>, !.entries = <<Entry(2, 0), Entry(1, 0)>>]

MCArchives ==
    {ZipFile, TarFile,
     [ZipFile EXCEPT !.damaged = TRUE],
     [ZipFile EXCEPT !.chunks = <<2, 2, 1>>],
     [ZipFile EXCEPT !.entries[2].size = 4],
     [ZipFile EXCEPT !.entries[1].compressed = 4, !.entries[1].size = 4],
     [TarFile EXCEPT !.entries[2].size = 2],
     [ZipFile EXCEPT !.entries = @ \o @],
     [TarFile EXCEPT !.entries[2].link = "outside"],
     [ZipFile EXCEPT !.entries[1].path = "outside"],
     [ZipFile EXCEPT !.format = "other"]}

(* At 15 years two findings share the highest score, one of them told      *)
(* before its score was rounded up.                                        *)
At(score, band) == [score |-> score, band |-> band]
MCRiskAt ==
    [d \in MCDetected |->
       CASE d = "rsa" -> [z \in {5, 15} |-> IF z = 5 THEN At(90, "critical") ELSE At(15, "medium")]
         [] d = "md5" -> [z \in {5, 15} |-> IF z = 5 THEN At(45, "high") ELSE At(15, "low")]
         [] OTHER -> [z \in {5, 15} |-> IF z = 5 THEN At(60, "critical") ELSE At(10, "low")]]
=============================================================================
