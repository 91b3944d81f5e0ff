--------------------------- MODULE MCScanScheduler ---------------------------
(* Small corpora for the scheduler.                                          *)
EXTENDS ScanScheduler

File(n, type, size, chars) ==
    [name |-> n, dir |-> "plain", type |-> type, rel |-> 10, abs |-> 20, size |-> size,
     chars |-> chars, cut |-> FALSE, lines |-> {20, 50, 130}, guard |-> TRUE,
     pages |-> 3, found |-> 1]

Md == File(1, "md", 80, 80)
Log == [File(2, "log", 300, 150) EXCEPT !.dir = "logs"]
Pdf1 == File(3, "pdf", 90, 60)
Pdf2 == [File(4, "pdf", 90, 100) EXCEPT !.found = 2]
Scanned == [File(5, "pdf", 95, 10) EXCEPT !.found = 0]
Docx == [File(6, "docx", 90, 100) EXCEPT !.cut = TRUE]
Big == [File(7, "docx", 600, 40) EXCEPT !.dir = "cache"]
Pdf3 == File(12, "pdf", 90, 10)
Huge == File(8, "md", 5000, 10)
Doc == File(9, "doc", 70, 10)
Bin == File(10, "bin", 70, 10)
NoGuard == [File(11, "txt", 70, 10) EXCEPT !.guard = FALSE]

Unknown == [s |-> "none", examined |-> 0]
Scan(files, g, cached) ==
    LET fs == NominalOrder(files)
    IN [files |-> fs, global |-> g, cached |-> {i \in DOMAIN fs : fs[i] \in cached},
        known |-> [i \in DOMAIN fs |-> IF fs[i] \in cached /\ fs[i].type = "pdf"
                                      THEN [s |-> "text", examined |-> fs[i].found]
                                      ELSE Unknown],
        issues |-> FALSE, strict |-> TRUE, refill |-> TRUE]

SmallScans ==
    {Scan({Pdf1, Pdf2, Md}, 2000, {}), Scan({Pdf1, Scanned, Md}, 1500, {Pdf1}),
     [Scan({Docx, Log, Md}, 1500, {Md}) EXCEPT !.strict = FALSE],
     [Scan({Big, Huge, Doc, Log}, 2000, {}) EXCEPT !.issues = TRUE],
     Scan({Bin, NoGuard, Md}, 2000, {}), Scan({Pdf1, Pdf2}, 400, {}),
     [Scan({Pdf1, Pdf2, Docx}, 2300, {}) EXCEPT !.refill = FALSE],
     Scan({Huge, Doc, Log}, 700, {}), Scan({Pdf1, Pdf2}, 1100, {}),
     Scan({Huge, Doc, Pdf1, Pdf2, Pdf3}, 1110, {})}
=============================================================================
