SPECIFICATION Spec
PROPERTIES
    DismissalOffered
