\* A selection across two adjacent spans, with remove colour.
CONSTANTS
    Colors = {"red", "blue"}
    MaxLen = 6
SPECIFICATION Spec
PROPERTY ColorKeepsTagsNested
