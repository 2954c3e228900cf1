-------------------------------- MODULE MCEnt --------------------------------
\* Instance of Ent for TLC: two rows of every type, the second event and the
\* second media asset without a parent.
EXTENDS Ent

Sample(type, f, i) ==
  LET kind == Entity[type].kinds[f]
  IN  CASE kind = "text" -> IF i = 1 THEN "a" ELSE "b"
        [] kind = "enum" -> "one" [] kind = "number" -> 1 [] kind = "flag" -> FALSE
        [] kind = "time" -> "then" [] kind = "json" -> "doc"
        [] kind = "key" -> IF i = 2 /\ type \in {"AnalyticsEvent", "MediaAsset"}
                             THEN Null ELSE i

SampleRow(type, i) == [f \in DOMAIN Entity[type].fields |-> Sample(type, f, i)]

MCIds == 1..3
MCFixture ==
  [type \in Types |-> [i \in MCIds |-> IF i = 3 THEN Null ELSE SampleRow(type, i)]]
MCDoomed == {<<"PostBlock", 1>>, <<"Post", 1>>}
=============================================================================
