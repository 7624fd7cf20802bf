--------------------------- MODULE MCXisfDocument ---------------------------
EXTENDS XisfDocument
Tag(name, space, attrs, fault) ==
  [name |-> name, space |-> space, attrs |-> attrs, fault |-> fault]
MCTags == {
  Tag("xisf", "core", {"version"}, "none"),
  Tag("Property", "unbound", {"id", "type"}, "none"),
  Tag("Property", "unbound", {"id", "type", "value"}, "none"),
  Tag("Image", "unbound", {}, "none"),
  Tag("Image", "unbound", {}, "descriptor"),
  Tag("Property", "foreign", {"id"}, "none")}
=============================================================================
