------------------------------ MODULE MCTagScan ------------------------------
\* Listings of up to three tags around the default v1.0.0, the limits and the
\* 99 boundary, with a tag that is no version and one that lacks its parts.
EXTENDS TagScan

MCTagPool == { Version("v", 0, 99, 99), Version("v", 1, 0, 0), Version("v", 1, 0, 99),
               Version("v", 1, 99, 99), Version("v", 2, 0, 0), Version("", 1, 2, 0),
               Version("assets-", 0, 0, 5), Version("v", 1, 100, 0),
               [prefix |-> "v", parts |-> <<1, 0, NaN>>], [prefix |-> "v", parts |-> <<2>>] }
MCTagSeqs == UNION { [1..n -> MCTagPool] : n \in 0..3 }
MCMaxTags == { EmptyTag, Version("v", 99, 99, 99), Version("v", 1, 99, 99),
               Version("v", 0, 9, 0), [prefix |-> "v", parts |-> <<1>>] }
=============================================================================
