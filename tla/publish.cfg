\* Two concurrent publishers over three files, stopping anywhere.
CONSTANTS
    FileCount = 3
    Keys = {k1, k2}
    Absent = Absent
    Publishers = {worker, cli}
    Nobody = Nobody
    NoJournal = NoJournal
SPECIFICATION Spec
INVARIANTS PublishTypeOK ReportedIsPublished ReadersSeePublished
PROPERTY Implements
