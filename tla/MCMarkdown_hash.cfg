CONSTANTS
    Kinds = {"fence", "heading", "hash", "rule", "quote", "item", "number", "zero", "cut", "digit", "blank", "text"}
    MaxLength = 2
SPECIFICATION MarkdownSpec
PROPERTY RenderEnds
CHECK_DEADLOCK FALSE
